---------------------------- MODULE Spec2Model ----------------------------
(***************************************************************************)
(* A model of the 4sale used-cars scraping pipeline:                       *)
(*   src/main.py            ScraperMain  (scrape_all_brands, scrape_brand, *)
(*                          scrape_page, upload_files_with_retry,          *)
(*                          save_to_excel)                                 *)
(*   src/SavingOnDrive.py   SavingOnDrive (create_folder, upload_file,     *)
(*                          save_files)                                    *)
(*   src/DetailsScraper.py  DetailsScraping (get_car_details,              *)
(*                          scrape_publish_date)                           *)
(*                                                                         *)
(* The specifications share the variables:                                 *)
(*   SpecUpload  the upload phase of one chunk: upload_files_with_retry,   *)
(*               save_files, create_folder, upload_file and the cleanup    *)
(*               loop of scrape_all_brands, statement by statement;        *)
(*   SpecBrand   one category job: scrape_brand and scrape_page with the   *)
(*               wall clock, statement by statement;                      *)
(*   SpecExtract one call of scrape_page, with the retry loop of           *)
(*               get_car_details attempt by attempt;                       *)
(*   SpecDate    one call of scrape_more_details: the relative-time text   *)
(*               and scrape_publish_date;                                  *)
(*   Spec        scrape_all_brands: chunks, tasks, the semaphore, export   *)
(*               and the upload phase, in a run by day;                    *)
(*   FairSpec    Spec under a fair event loop;                             *)
(*   SpecMidnight  the same run begun at 23:00 or later, which can cross   *)
(*               midnight between the starts of two jobs.                  *)
(***************************************************************************)
EXTENDS Integers, Sequences, FiniteSets, TLC

(***************************************************************************)
(* Bounds of the model.                                                    *)
(***************************************************************************)
\* the longest pending-upload list SpecUpload starts from
MaxFiles == 2
\* the largest number in a relative-time text
MaxNumber == 3
\* the most brands scrape_all_brands is given
MaxBrands == 3
\* the largest chunk size
MaxChunkSize == 3
\* the most pages one brand has, over all its url templates
MaxPages == 3
\* the number of steps the clock of the model can advance
MaxTicks == 1
\* the length of a clock step, in seconds
TickSeconds == 7200
\* the day the model's clock starts in
FirstDay == 10

(***************************************************************************)
(* Program constants.                                                      *)
(***************************************************************************)
\* SavingOnDrive.upload_file: retries = 5
retries == 5
\* ScraperMain.__init__: self.upload_retries = 3
upload_retries == 3
\* ScraperMain.__init__: self.upload_retry_delay = 15
upload_retry_delay == 15
\* SavingOnDrive.save_files: parent_folder_ids, by position in the list
parent_folder_ids == <<1, 2>>
\* ScraperMain.__init__: self.chunk_size = 3
self_chunk_size == 3
\* ScraperMain.scrape_all_brands: asyncio.Semaphore(2)
SemaphoreCapacity == 2
\* ScraperMain.__init__: self.chunk_delay = 30
chunk_delay == 30
\* DetailsScraping.__init__: retries = 3
self_retries == 3
\* ScraperMain.scrape_page: max_retries = 3
max_retries == 3
\* ScraperMain.scrape_page: base_delay = 5
base_delay == 5
\* ScraperMain.__init__: self.page_delay = 3
page_delay == 3

None == "None"

\* the value of a call that returned no id (Python's None where an id is expected)
NoId == <<>>

VARIABLES
    pc,               \* position of the main coroutine (scrape_all_brands and its callees)
    pending_uploads,  \* scrape_all_brands: list of artifact paths awaiting upload
    uploaded_files,   \* upload_files_with_retry: list of paths it reports uploaded
    disk,             \* temp_dir: the artifact files that exist locally
    artifacts,        \* every artifact file save_to_excel has written in this run
    fileIdx,          \* upload_files_with_retry: index of `file` in `files` (1-based)
    attempt,          \* upload_files_with_retry: loop variable `attempt`
    parentIdx,        \* save_files: index of parent_folder_id in parent_folder_ids
    folder_id,        \* save_files: folder_id of the current destination
    folder_name,      \* save_files: yesterday, the name of the dated subfolder
    i,                \* upload_file: loop variable `i`
    uf,               \* record of the current / last upload_file call
    drive_folders,    \* remote store: number of dated subfolders under each parent
    drive_files,      \* remote store: number of files created per <<file, parent>>
    upload_sleeps,    \* upload_files_with_retry: delays slept so far
    uploads_attempted,\* the chunks whose upload phase (line 155-167) is over
    now,              \* the wall clock (datetime.now()), in seconds
    urls,             \* scrape_brand: the page_count of each (url_template, page_count)
    brand_pc,         \* position of the scrape_brand coroutine
    started_at,       \* the clock when scrape_brand computed `yesterday`
    yesterday,        \* scrape_brand: the target date, as strftime("%Y-%m-%d") gives it
    car_data,         \* scrape_brand: dict car_type -> list of details
    url_idx,          \* scrape_brand: index of (url_template, page_count) in urls
    page,             \* scrape_brand: loop variable `page`
    result,           \* scrape_page: dict car_type -> list of details
    page_attempt,     \* scrape_page: loop variable `attempt`
    sp,               \* record of the current / last scrape_page call
    page_log,         \* one entry per scrape_page call that has returned
    brands,           \* len(self.brand_data): the brands are 1..brands, in order
    chunk_size,       \* self.chunk_size
    chunk_index,      \* scrape_all_brands: chunk_index (1-based)
    task_idx,         \* scrape_all_brands: position in the chunk of the two loops
    tasks,            \* scrape_all_brands: the brands of the tasks created for the chunk
    job,              \* per brand: the state of its scrape_brand coroutine
    semaphore,        \* asyncio.Semaphore: free permits and the queue of waiters
    chunk_sleeps,     \* scrape_all_brands: the delays slept at line 172
    details_pc,       \* position in scrape_more_details, line 387-414
    relative_date,    \* scrape_more_details: what scrape_relative_date returned
    date_published,   \* get_car_details: scrape_more_details(link).get('date_published')
    details_raised,   \* scrape_more_details: its except clause (line 412) has run
    gcd_pc,           \* position in get_car_details, line 16-79
    gcd_attempt,      \* get_car_details: loop variable `attempt`
    cars,             \* get_car_details: cars
    car_cards,        \* get_car_details: car_cards, the cards the page shows
    navigations       \* page.goto calls of each get_car_details call of the
                      \* current scrape_page call

uploadVars == <<pc, pending_uploads, uploaded_files, disk, artifacts, fileIdx, attempt,
                parentIdx, folder_id, folder_name, i, uf, drive_folders, drive_files,
                upload_sleeps, uploads_attempted>>

brandVars == <<now, urls, brand_pc, started_at, yesterday, car_data, url_idx,
               page, result, page_attempt, sp, page_log>>

orchVars == <<brands, chunk_size, chunk_index, task_idx, tasks, job, semaphore,
              chunk_sleeps>>

extractVars == <<gcd_pc, gcd_attempt, cars, car_cards, navigations>>

detailVars ==
    <<details_pc, relative_date, date_published, details_raised, extractVars>>

vars == <<uploadVars, brandVars, orchVars, detailVars>>

(***************************************************************************)
(* The wall clock and strftime / split                                     *)
(***************************************************************************)
SecondsPerDay == 24 * 3600

\* the clock values of the model: MaxTicks steps of TickSeconds from
\* 23:00 of day FirstDay, so that a run can cross midnight
FirstInstant == FirstDay * SecondsPerDay + 23 * 3600

ClockValues == {FirstInstant + k * TickSeconds : k \in 0..MaxTicks}

\* the clock values of a run that stays within day FirstDay: MaxTicks steps
\* of TickSeconds from 11:00
MorningInstant == FirstDay * SecondsPerDay + 11 * 3600

DayClockValues == {MorningInstant + k * TickSeconds : k \in 0..MaxTicks}

\* the clock after an await: any value not before the present one
Later(t) ==
    {u \in (IF t \in DayClockValues THEN DayClockValues ELSE ClockValues) : u >= t}

\* a Python str, as the list of its whitespace-separated tokens (what
\* str.split() returns), or None
Str(tokens) == [py |-> "str", tokens |-> tokens]
PyNone == [py |-> "None", tokens |-> <<>>]

DateToken(d) == <<"date", d>>
TimeToken(sec) == <<"time", sec>>
Word(w) == <<"word", w>>

\* strftime("%Y-%m-%d %H:%M:%S") of the instant t
FormatDateTime(t) ==
    Str(<<DateToken(t \div SecondsPerDay), TimeToken(t % SecondsPerDay)>>)

\* strftime("%Y-%m-%d") of the instant t
FormatDate(t) == DateToken(t \div SecondsPerDay)

(***************************************************************************)
(* SavingOnDrive.upload_file                                               *)
(***************************************************************************)
\* HTTP statuses the remote store answers a failed create with
HttpStatuses == {400, 403, 404, 429, 500, 503}

\* what self.service.files().create(...).execute() can do on one attempt
ExecuteOutcomes ==
    {[kind |-> "ok", status |-> 200],
     [kind |-> "SSLEOFError", status |-> 0],
     [kind |-> "ConnectionError", status |-> 0],
     [kind |-> "Exception", status |-> 0]}
    \cup {[kind |-> "HttpError", status |-> s] : s \in HttpStatuses}

\* a variant of IsRetryable that retries every HttpError
IsRetryable_anyHttp(o) ==
    o.kind = "SSLEOFError" \/ o.kind = "HttpError"

\* the failures upload_file retries: except ssl.SSLEOFError, and HttpError
\* with resp.status in [403, 500, 503]
IsRetryable(o) ==
    \/ o.kind = "SSLEOFError"
    \/ o.kind = "HttpError" /\ o.status \in {403, 500, 503}

\* a variant of BackoffDelay that grows linearly
BackoffDelay_linear(k) == 2 * k

\* time.sleep(2 ** i)
BackoffDelay(k) == 2 ^ k

\* the id of the remote file created for `file` under parent `p`
FileId(file, p) == <<file, p>>

\* a variant of InRange that allows one more pass
InRange_offByOne(k) == k <= retries

\* `for i in range(retries)`: whether the loop has a pass for k
InRange(k) == k < retries

\* the record kept of one upload_file call: the create requests made, those
\* that failed, the delays slept, the outcome of the last request, and the
\* value returned
NoOutcome == [kind |-> None, status |-> 0]

NewUploadCall(file, p) ==
    [file |-> file, parent |-> p, attempts |-> 0, failures |-> 0,
     sleeps |-> <<>>, last |-> NoOutcome, status |-> "running",
     result |-> NoId]


\* upload_file, line 59-61: the call begins (MediaFileUpload built by the caller
\* step), i = 0
UploadFileCalled(file, p) ==
    /\ uf' = NewUploadCall(file, p)
    /\ i' = 0

\* a variant of UploadFileReturns that leaves the destination loop when the
\* upload failed
UploadFileReturns_abandons ==
    /\ pc' = "save_files"
    /\ parentIdx' = IF uf'.result = NoId THEN Len(parent_folder_ids) + 1
                    ELSE parentIdx + 1

\* what the caller does when upload_file returns: save_files ignores the
\* returned value and goes on with the next parent folder (files holds one
\* file, so the inner loop over files ends with it)
UploadFileReturns ==
    /\ pc' = "save_files"
    /\ parentIdx' = parentIdx + 1

\* upload_file, line 63-88: one pass of `for i in range(retries)`: the create
\* request, the handler of what it raised, and the loop's exit
upload_file ==
    /\ pc = "upload_file"
    /\ InRange(i)
    /\ \E o \in ExecuteOutcomes :
         LET file == uf.file
             p == uf.parent
             tried == [uf EXCEPT !.attempts = @ + 1, !.last = o,
                                 !.failures = IF o.kind = "ok" THEN @ ELSE @ + 1]
             returns(v) == [tried EXCEPT !.status = "returned", !.result = v]
         IN IF o.kind = "ok"
            THEN \* line 66-68: return file.get('id')
                 /\ drive_files' = [drive_files EXCEPT ![<<file, p>>] = @ + 1]
                 /\ uf' = returns(FileId(file, p))
                 /\ i' = i
                 /\ UploadFileReturns
            ELSE /\ drive_files' = drive_files
                 /\ IF IsRetryable(o)
                    THEN \* line 69-77: time.sleep(2 ** i), next i; after the
                         \* last pass the for-else returns None (line 85-88)
                         LET slept == Append(uf.sleeps, BackoffDelay(i))
                         IN /\ i' = i + 1
                            /\ IF InRange(i + 1)
                               THEN /\ uf' = [tried EXCEPT !.sleeps = slept]
                                    /\ pc' = pc
                                    /\ parentIdx' = parentIdx
                               ELSE /\ uf' = [returns(NoId) EXCEPT !.sleeps = slept]
                                    /\ UploadFileReturns
                    ELSE \* line 78-84: break; the function ends without a
                         \* return statement, so its value is None
                         /\ i' = i
                         /\ uf' = returns(NoId)
                         /\ UploadFileReturns
    /\ UNCHANGED <<pending_uploads, uploaded_files, disk, artifacts, fileIdx, attempt,
                   folder_id, folder_name, drive_folders, upload_sleeps>>
    /\ UNCHANGED <<uploads_attempted, brandVars, orchVars>>
    /\ UNCHANGED detailVars

(***************************************************************************)
(* SavingOnDrive.create_folder and SavingOnDrive.save_files                *)
(***************************************************************************)
\* the id of the k-th dated subfolder under parent p
FolderId(p, k) == <<p, k>>

\* what create_folder's two requests can do: the list fails, the list
\* succeeds and (when nothing is found) the create fails, or all succeed
FolderOutcomes == {"ok", "list_error", "create_error"}

\* create_folder, line 24-55: the id it returns for parent p, None on an error
create_folder(p, o) ==
    IF o = "list_error" THEN NoId
    ELSE IF drive_folders[p] > 0 THEN FolderId(p, 1)
    ELSE IF o = "create_error" THEN NoId
    ELSE FolderId(p, drive_folders[p] + 1)

\* a variant of FoldersAfter that creates the folder without looking it up
FoldersAfter_alwaysCreates(p, o) ==
    IF o = "ok"
    THEN [drive_folders EXCEPT ![p] = @ + 1]
    ELSE drive_folders

\* the remote store after create_folder for parent p
FoldersAfter(p, o) ==
    IF o = "ok" /\ drive_folders[p] = 0
    THEN [drive_folders EXCEPT ![p] = 1]
    ELSE drive_folders

\* a variant of FolderFound that takes every returned value for an id
FolderFound_always(id) == TRUE

\* save_files, line 98: `if folder_id:` for what create_folder returned
FolderFound(id) == id # NoId

\* upload_files_with_retry, line 186-191: the handler of an exception raised
\* by save_files
SaveFilesRaises ==
    /\ upload_sleeps' = IF attempt < upload_retries - 1
                        THEN Append(upload_sleeps, upload_retry_delay)
                        ELSE upload_sleeps
    /\ attempt' = attempt + 1
    /\ pc' = "upload_files_with_retry"

\* save_files, line 93, called at the instant t:
\* yesterday = (datetime.now() - timedelta(days=1)).strftime('%Y-%m-%d')
save_files_yesterday(t) == FormatDate(t - SecondsPerDay)

\* save_files, line 95-101: one pass of the loop over parent_folder_ids:
\* create_folder, then upload_file for the file when a folder id came back.
\* MediaFileUpload (upload_file, line 60) is outside upload_file's try and may
\* raise; the exception leaves save_files.
save_files ==
    /\ pc = "save_files"
    /\ parentIdx <= Len(parent_folder_ids)
    /\ \E o \in FolderOutcomes, media \in {"ok", "raise"} :
         LET p == parent_folder_ids[parentIdx]
             id == create_folder(p, o)
         IN /\ drive_folders' = FoldersAfter(p, o)
            /\ folder_id' = id
            /\ IF ~FolderFound(id)
               THEN /\ media = "ok"
                    /\ pc' = pc
                    /\ parentIdx' = parentIdx + 1
                    /\ UNCHANGED <<uf, i, attempt, upload_sleeps>>
               ELSE IF media = "ok"
               THEN /\ UploadFileCalled(pending_uploads[fileIdx], p)
                    /\ pc' = "upload_file"
                    /\ UNCHANGED <<parentIdx, attempt, upload_sleeps>>
               ELSE /\ SaveFilesRaises
                    /\ UNCHANGED <<uf, i, parentIdx>>
    /\ UNCHANGED <<pending_uploads, uploaded_files, disk, artifacts, fileIdx,
                   folder_name, drive_files>>
    /\ UNCHANGED <<uploads_attempted, brandVars, orchVars>>
    /\ UNCHANGED detailVars

\* save_files, line 103, returning to upload_files_with_retry, line 183-185:
\* uploaded_files.append(file); break
save_files_return ==
    /\ pc = "save_files"
    /\ parentIdx > Len(parent_folder_ids)
    /\ uploaded_files' = Append(uploaded_files, pending_uploads[fileIdx])
    /\ fileIdx' = fileIdx + 1
    /\ attempt' = 0
    /\ pc' = "upload_files_with_retry"
    /\ UNCHANGED <<pending_uploads, disk, artifacts, parentIdx, folder_id, folder_name, i,
                   uf, drive_folders, drive_files, upload_sleeps>>
    /\ UNCHANGED <<uploads_attempted, brandVars, orchVars>>
    /\ UNCHANGED detailVars

(***************************************************************************)
(* ScraperMain.upload_files_with_retry and the upload phase of a chunk     *)
(***************************************************************************)
\* scrape_all_brands, line 156-157: if pending_uploads: call
\* upload_files_with_retry (uploaded_files = [], first file, first attempt)
upload_phase ==
    /\ pc = "upload_phase"
    /\ IF pending_uploads # <<>>
       THEN /\ pc' = "upload_files_with_retry"
            /\ uploaded_files' = <<>>
            /\ fileIdx' = 1
            /\ attempt' = 0
            /\ upload_sleeps' = <<>>
            /\ UNCHANGED uploads_attempted
       ELSE /\ pc' = "chunk_wait"
            /\ uploads_attempted' = uploads_attempted \cup {chunk_index}
            /\ UNCHANGED <<uploaded_files, fileIdx, attempt, upload_sleeps>>
    /\ UNCHANGED <<pending_uploads, disk, artifacts, parentIdx, folder_id, folder_name, i,
                   uf, drive_folders, drive_files>>
    /\ UNCHANGED <<brandVars, orchVars>>
    /\ UNCHANGED detailVars

\* upload_files_with_retry, line 178-193: the head of the two loops
upload_files_with_retry ==
    /\ pc = "upload_files_with_retry"
    /\ IF fileIdx > Len(pending_uploads)
       THEN \* line 193: return uploaded_files
            /\ pc' = "cleanup"
            /\ UNCHANGED <<fileIdx, attempt, parentIdx, folder_name>>
       ELSE IF attempt >= upload_retries
       THEN \* the attempts of this file are used up: next file
            /\ fileIdx' = fileIdx + 1
            /\ attempt' = 0
            /\ UNCHANGED <<pc, parentIdx, folder_name>>
       ELSE IF pending_uploads[fileIdx] \in disk
       THEN \* line 181-182: drive_saver.save_files([file])
            /\ pc' = "save_files"
            /\ folder_name' = save_files_yesterday(now)
            /\ parentIdx' = 1
            /\ UNCHANGED <<fileIdx, attempt>>
       ELSE \* os.path.exists is false: nothing raised, next attempt
            /\ attempt' = attempt + 1
            /\ UNCHANGED <<pc, fileIdx, parentIdx, folder_name>>
    /\ UNCHANGED <<pending_uploads, uploaded_files, disk, artifacts, folder_id, i, uf,
                   drive_folders, drive_files, upload_sleeps>>
    /\ UNCHANGED <<uploads_attempted, brandVars, orchVars>>
    /\ UNCHANGED detailVars

\* the files os.remove is called for, line 160-165
RECURSIVE RemoveAll(_, _, _)
RemoveAll(files, failing, d) ==
    IF files = <<>> THEN d
    ELSE RemoveAll(Tail(files), failing,
                   IF Head(files) \in failing THEN d ELSE d \ {Head(files)})

\* scrape_all_brands, line 159-167: os.remove for every uploaded file (an
\* error of os.remove is logged and leaves the file), pending_uploads = []
cleanup ==
    /\ pc = "cleanup"
    /\ \E failing \in SUBSET {uploaded_files[k] : k \in 1..Len(uploaded_files)} :
         disk' = RemoveAll(uploaded_files, failing, disk)
    /\ pending_uploads' = <<>>
    /\ uploads_attempted' = uploads_attempted \cup {chunk_index}
    /\ pc' = "chunk_wait"
    /\ UNCHANGED <<uploaded_files, artifacts, fileIdx, attempt, parentIdx,
                   folder_id, folder_name, i, uf, drive_folders, drive_files,
                   upload_sleeps>>
    /\ UNCHANGED <<brandVars, orchVars>>
    /\ UNCHANGED detailVars

(***************************************************************************)
(* DetailsScraping: scrape_publish_date, scrape_more_details,              *)
(* get_car_details                                                         *)
(***************************************************************************)
\* a word of a text, as the tuple of its characters
W_Second == <<"S", "e", "c", "o", "n", "d">>
W_seconds == <<"s", "e", "c", "o", "n", "d", "s">>
W_SECONDS == <<"S", "E", "C", "O", "N", "D", "S">>
W_Minute == <<"M", "i", "n", "u", "t", "e">>
W_minutes == <<"m", "i", "n", "u", "t", "e", "s">>
W_MINUTE == <<"M", "I", "N", "U", "T", "E">>
W_Hour == <<"H", "o", "u", "r">>
W_hours == <<"h", "o", "u", "r", "s">>
W_HOURS == <<"H", "O", "U", "R", "S">>
W_Day == <<"D", "a", "y">>
W_days == <<"d", "a", "y", "s">>
W_DAYS == <<"D", "A", "Y", "S">>
W_Week == <<"W", "e", "e", "k">>
W_yesterday == <<"y", "e", "s", "t", "e", "r", "d", "a", "y">>
W_Hr == <<"H", "r">>

\* str.lower() on one character (the letters of the words above)
LowerChar_identity(c) == c

LowerChar(c) ==
    CASE c = "A" -> "a"
      [] c = "C" -> "c"
      [] c = "D" -> "d"
      [] c = "E" -> "e"
      [] c = "H" -> "h"
      [] c = "I" -> "i"
      [] c = "K" -> "k"
      [] c = "M" -> "m"
      [] c = "N" -> "n"
      [] c = "O" -> "o"
      [] c = "R" -> "r"
      [] c = "S" -> "s"
      [] c = "T" -> "t"
      [] c = "U" -> "u"
      [] c = "W" -> "w"
      [] c = "Y" -> "y"
      [] OTHER -> c

\* str.lower()
Lower(word) == [k \in 1..Len(word) |-> LowerChar(word[k])]

\* the alternatives (Second|Minute|Hour|Day) of relative_time_pattern
UnitAlternatives == <<W_Second, W_Minute, W_Hour, W_Day>>

\* the alternatives that match at the start of `word` with re.IGNORECASE
MatchingAlternatives(word) ==
    {k \in 1..Len(UnitAlternatives) :
        /\ Len(UnitAlternatives[k]) <= Len(word)
        /\ Lower(SubSeq(word, 1, Len(UnitAlternatives[k]))) = Lower(UnitAlternatives[k])}

\* match.group(2) for a text whose word after the number is `word`: the part
\* of the word the first matching alternative covers; <<>> when none matches
MatchGroup2(word) ==
    IF MatchingAlternatives(word) = {} THEN <<>>
    ELSE LET k == CHOOSE x \in MatchingAlternatives(word) :
                      \A y \in MatchingAlternatives(word) : x <= y
         IN SubSeq(word, 1, Len(UnitAlternatives[k]))

\* a relative-time text as scrape_relative_date returns it (" ago" removed):
\* "<n> <unit>" when it begins with a number, the bare word otherwise; or None
Rel(n, unit) == [py |-> "str", digits |-> TRUE, n |-> n, unit |-> unit]
Bare(word) == [py |-> "str", digits |-> FALSE, n |-> 0, unit |-> word]
RelNone == [py |-> "None", digits |-> FALSE, n |-> 0, unit |-> <<>>]

\* scrape_publish_date, line 149-177, for a str argument at clock t
scrape_publish_date(relative_time, t) ==
    LET group2 == IF relative_time.digits THEN MatchGroup2(relative_time.unit)
                  ELSE <<>>
        number == relative_time.n
        unit == Lower(group2)
    IN IF group2 = <<>>
       THEN Str(<<Word("Invalid"), Word("Relative"), Word("Time")>>)
       ELSE IF unit = Lower(W_Second) THEN FormatDateTime(t - number)
       ELSE IF unit = Lower(W_Minute) THEN FormatDateTime(t - number * 60)
       ELSE IF unit = Lower(W_Hour) THEN FormatDateTime(t - number * 3600)
       ELSE IF unit = Lower(W_Day) THEN FormatDateTime(t - number * SecondsPerDay)
       ELSE Str(<<Word("Unsupported"), Word("time"), Word("unit"), Word("found.")>>)

\* scrape_more_details, line 365-414: the 'date_published' the caller reads
\* from the dict it returns. re.search raises TypeError on None; the except
\* returns {} and .get('date_published') is None.
DatePublished(text, t) ==
    IF text.py = "None" THEN PyNone
    ELSE scrape_publish_date(text, t)

\* the car types found on a card: a tag, or None when the element is missing
\* (scrape_car_type, line 88-91)
\* the listings a page can show: car type and relative-time text
Listing(type, rel) == [type |-> type, rel |-> rel]

OldSedan == Listing("Sedan", Rel(26, W_Hour))
NewUntyped == Listing(None, Rel(2, W_hours))
DayOldSUV == Listing("SUV", Rel(1, W_Day))
NoDetails == Listing("Sedan", RelNone)
Unparseable == Listing("SUV", Bare(W_yesterday))

\* what a page of the site can hold when it is fetched
PageContents ==
    {<<OldSedan, NewUntyped>>, <<OldSedan, NoDetails, DayOldSUV>>,
     <<Unparseable, DayOldSUV>>}

\* what one call of get_car_details can do: raise (the browser cannot be
\* launched or a page cannot be opened), or return the cards of the page
FetchOutcomes ==
    {[raises |-> TRUE, listings |-> <<>>]}
    \cup {[raises |-> FALSE, listings |-> c] : c \in PageContents}

\* the relative-time texts on the cards of these pages
CardTexts == UNION {{c[k].rel : k \in 1..Len(c)} : c \in PageContents}

\* scrape_more_details(link).get('date_published') for each of these texts,
\* read at each instant of the clock
PublishedAt ==
    [text \in CardTexts |-> [t \in ClockValues |-> DatePublished(text, t)]]

\* get_car_details, line 45-64: the dict appended for card k of page url
CarDict(url, k, listing, t) ==
    [link |-> <<url, k>>, type |-> listing.type,
     date_published |-> PublishedAt[listing.rel][t]]

\* get_car_details, line 16-79: the list it returns for a page showing
\* `listings`, fetched at clock t
get_car_details(url, listings, t) ==
    [k \in 1..Len(listings) |-> CarDict(url, k, listings[k], t)]

\* the relative-time texts of the model: a number and a word, a bare word,
\* an empty text, or None (the text could not be read)
UnitWords ==
    {W_Second, W_seconds, W_SECONDS, W_Minute, W_minutes, W_MINUTE,
     W_Hour, W_hours, W_HOURS, W_Day, W_days, W_DAYS}

OtherWords == {W_Week, W_Hr, W_yesterday, <<>>}

RelativeTexts ==
    {Rel(n, word) : n \in 0..MaxNumber, word \in UnitWords \cup OtherWords}
    \cup {Bare(word) : word \in OtherWords}
    \cup {RelNone}

\* the detail variables outside a call of scrape_more_details
\* the variables of get_car_details outside a call that is followed step by
\* step
IdleExtract ==
    /\ gcd_pc = "idle"
    /\ gcd_attempt = 0
    /\ cars = <<>>
    /\ car_cards = <<>>
    /\ navigations = <<>>

IdleDetails ==
    /\ details_pc = "idle"
    /\ relative_date = RelNone
    /\ date_published = PyNone
    /\ details_raised = FALSE
    /\ IdleExtract

\* scrape_more_details, line 387: relative_date = scrape_relative_date(page),
\* line 116-146, which returns the text without " ago", or None
scrape_relative_date ==
    /\ details_pc = "relative_date"
    /\ \E text \in RelativeTexts : relative_date' = text
    /\ \E t \in Later(now) : now' = t
    /\ details_pc' = "publish_date"
    /\ UNCHANGED <<date_published, details_raised, extractVars>>
    /\ UNCHANGED <<urls, brand_pc, started_at, yesterday, car_data, url_idx,
                   page, result, page_attempt, sp, page_log>>
    /\ UNCHANGED <<uploadVars, orchVars>>

\* scrape_more_details, line 388-414: scrape_publish_date(relative_date); a
\* TypeError of re.search (relative_date is None) is caught at line 412 and
\* {} is returned, so that get_car_details reads None for 'date_published'
scrape_more_details ==
    /\ details_pc = "publish_date"
    /\ details_raised' = (relative_date.py = "None")
    /\ date_published' = DatePublished(relative_date, now)
    /\ details_pc' = "done"
    /\ UNCHANGED <<relative_date, extractVars>>
    /\ UNCHANGED brandVars
    /\ UNCHANGED <<uploadVars, orchVars>>

(***************************************************************************)
(* ScraperMain.scrape_page                                                 *)
(***************************************************************************)
EmptyDict == [k \in {} |-> <<>>]

\* dict.get(key, []) on a dict of lists
GetList(d, key) == IF key \in DOMAIN d THEN d[key] ELSE <<>>

\* d.setdefault(key, []).append(x)
AppendTo(d, key, x) ==
    [k \in DOMAIN d \cup {key} |->
        IF k = key THEN Append(GetList(d, k), x) ELSE d[k]]

\* a variant of IsTargetDate that keeps every dated record
IsTargetDate_anyDate(detail, target) ==
    detail.date_published.tokens[1][1] = "date"

\* scrape_page, line 93: detail.get("date_published", "").split()[0] == yesterday
\* (for a detail whose date_published is a str)
IsTargetDate(detail, target) ==
    detail.date_published.tokens[1] = target

\* scrape_page, line 92-95: the filter loop over car_details, from the dict
\* `res`; .split() raises AttributeError on None and the loop ends there,
\* with what it appended so far left in the dict
RECURSIVE FilterDetails(_, _, _)
FilterDetails(car_details, res, target) ==
    IF car_details = <<>> THEN [result |-> res, raised |-> FALSE]
    ELSE LET detail == Head(car_details)
         IN IF detail.date_published.py = "None"
            THEN [result |-> res, raised |-> TRUE]
            ELSE FilterDetails(Tail(car_details),
                               IF IsTargetDate(detail, target)
                               THEN AppendTo(res, detail.type, detail)
                               ELSE res,
                               target)

\* a variant of MergeResult that keeps only the last page's records of a type
MergeResult_overwrite(data, res) ==
    [k \in DOMAIN data \cup DOMAIN res |->
        IF k \in DOMAIN res THEN res[k] ELSE data[k]]

\* scrape_brand, line 67-68: for car_type, details in result.items():
\*     car_data.setdefault(car_type, []).extend(details)
MergeResult(data, res) ==
    [k \in DOMAIN data \cup DOMAIN res |-> GetList(data, k) \o GetList(res, k)]

\* a variant of HasNextAttempt that also waits after the last attempt
HasNextAttempt_oneMore(k) == k < max_retries

\* scrape_page, line 86 and 101: `for attempt in range(max_retries)` has
\* another pass after pass k
HasNextAttempt(k) == k < max_retries - 1

\* a variant of RetryDelay that does not grow
RetryDelay_constant(k) == base_delay

\* scrape_page, line 102: delay = base_delay * (attempt + 1)
RetryDelay(k) == base_delay * (k + 1)

\* the url of the current page: (template, page number)
CurrentUrl == <<url_idx, page>>

\* the record kept of one scrape_page call: its arguments url and yesterday,
\* the get_car_details calls made, the delays slept, whether it has
\* returned, whether the last attempt raised, whether get_car_details
\* returned in it and the list it returned
NewPageCall(url, target) ==
    [url |-> url, yesterday |-> target, attempts |-> 0, sleeps |-> <<>>,
     status |-> "running", failed |-> FALSE, fetched |-> FALSE,
     car_details |-> <<>>]

\* the entry logged when a scrape_page call returns: the page, the target
\* date it was called with, whether its last attempt succeeded, and the dict
\* it returned
LogEntry(url, ok, res) ==
    [url |-> url, yesterday |-> sp.yesterday, ok |-> ok, result |-> res]

\* scrape_page returns `res` to scrape_brand, which merges it (line 64-68)
ScrapePageReturns(ok, res) ==
    /\ car_data' = MergeResult(car_data, res)
    /\ page_log' = Append(page_log, LogEntry(CurrentUrl, ok, res))
    /\ brand_pc' = "page_delay"

\* scrape_page, line 88-107: the rest of one pass of the retry loop once
\* get_car_details has raised, or returned car_details, at the instant t: the
\* filter, and the handler of what was raised
ScrapePagePass(raises, car_details, t) ==
         LET filtered == FilterDetails(car_details, result, sp.yesterday)
             raised == raises \/ filtered.raised
             res == IF raises THEN result ELSE filtered.result
             called == [sp EXCEPT !.attempts = @ + 1, !.failed = raised,
                                  !.fetched = ~raises,
                                  !.car_details = car_details]
         IN /\ now' = t
            /\ result' = res
            /\ IF ~raised
               THEN \* line 97: return result
                    /\ sp' = [called EXCEPT !.status = "returned"]
                    /\ page_attempt' = page_attempt
                    /\ ScrapePageReturns(TRUE, res)
               ELSE IF HasNextAttempt(page_attempt)
               THEN \* line 101-103: sleep, next attempt
                    /\ sp' = [called EXCEPT
                                 !.sleeps = Append(@, RetryDelay(page_attempt))]
                    /\ page_attempt' = page_attempt + 1
                    /\ UNCHANGED <<car_data, page_log, brand_pc>>
               ELSE \* line 105-107: the loop is over, return result
                    /\ sp' = [called EXCEPT !.status = "returned"]
                    /\ page_attempt' = page_attempt + 1
                    /\ ScrapePageReturns(FALSE, res)

\* scrape_page, line 86-107: one pass of the retry loop: get_car_details, the
\* filter, and the handler of what was raised
scrape_page ==
    /\ brand_pc = "scrape_page"
    /\ \E fetch \in FetchOutcomes, t \in Later(now) :
         ScrapePagePass(fetch.raises,
                        IF fetch.raises THEN <<>>
                        ELSE get_car_details(CurrentUrl, fetch.listings, t),
                        t)
    /\ UNCHANGED <<urls, started_at, yesterday, url_idx, page>>
    /\ UNCHANGED <<uploadVars, orchVars>>
    /\ UNCHANGED detailVars

(***************************************************************************)
(* DetailsScraping.get_car_details, attempt by attempt, inside one call of *)
(* scrape_page                                                             *)
(***************************************************************************)
\* a variant of HasNextNavigation that allows one more pass
HasNextNavigation_oneMore(k) == k < self_retries

\* get_car_details, line 27, 69 and 75: `for attempt in range(self.retries)`
\* has another pass after pass k (attempt + 1 < self.retries)
HasNextNavigation(k) == k + 1 < self_retries

\* get_car_details, line 36-64: the dicts appended for the first n cards of
\* a page showing `listings`
CardsAppended(url, listings, n, t) ==
    [k \in 1..n |-> CarDict(url, k, listings[k], t)]

\* the other variables of the job and of scrape_more_details, which a step
\* of get_car_details leaves alone
ExtractFrame ==
    /\ UNCHANGED <<urls, started_at, yesterday, url_idx, page>>
    /\ UNCHANGED <<details_pc, relative_date, date_published, details_raised>>
    /\ UNCHANGED <<uploadVars, orchVars>>

\* an exception leaves get_car_details and is caught by scrape_page, line 99
GetCarDetailsRaises(t) ==
    /\ ScrapePagePass(TRUE, <<>>, t)
    /\ gcd_pc' = "idle"

\* scrape_page, line 88-89, and get_car_details, line 17-25: the browser is
\* launched and a page opened, either of which can raise; cars = []
get_car_details_begin ==
    /\ brand_pc = "scrape_page"
    /\ gcd_pc = "idle"
    /\ navigations' = Append(navigations, 0)
    /\ \E launched \in BOOLEAN :
         IF launched
         THEN /\ gcd_pc' = "attempt"
              /\ gcd_attempt' = 0
              /\ cars' = <<>>
              /\ UNCHANGED <<now, result, page_attempt, sp, car_data, page_log,
                             brand_pc>>
         ELSE /\ GetCarDetailsRaises(now)
              /\ UNCHANGED <<gcd_attempt, cars>>
    /\ UNCHANGED car_cards
    /\ ExtractFrame

\* get_car_details, line 27-76: one pass of the loop.  page.goto; the cards
\* of the page are read in order and an exception after n of them leaves
\* their n dicts in cars; `break` after the last card, or in the handler
\* after the last pass; the finally clause, whose page.close() and
\* new_page() can raise.
get_car_details_attempt ==
    /\ gcd_pc = "attempt"
    /\ navigations' = [navigations EXCEPT ![Len(navigations)] = @ + 1]
    /\ \E t \in Later(now) :
         \E n \in 0..Len(car_cards), finally_raises \in BOOLEAN :
            /\ cars' = cars \o CardsAppended(CurrentUrl, car_cards, n, t)
            /\ IF finally_raises
               THEN /\ GetCarDetailsRaises(t)
                    /\ UNCHANGED gcd_attempt
               ELSE /\ now' = t
                    /\ IF n < Len(car_cards) /\ HasNextNavigation(gcd_attempt)
                       THEN /\ gcd_attempt' = gcd_attempt + 1
                            /\ gcd_pc' = gcd_pc
                       ELSE /\ gcd_attempt' = gcd_attempt
                            /\ gcd_pc' = "close"
                    /\ UNCHANGED <<result, page_attempt, sp, car_data, page_log,
                                   brand_pc>>
    /\ UNCHANGED car_cards
    /\ ExtractFrame

\* get_car_details, line 78-79, and scrape_page, line 89-107: browser.close(),
\* which can raise, `return cars`, and the rest of the pass of scrape_page
get_car_details_return ==
    /\ gcd_pc = "close"
    /\ \E close_raises \in BOOLEAN :
         ScrapePagePass(close_raises, IF close_raises THEN <<>> ELSE cars, now)
    /\ gcd_pc' = "idle"
    /\ UNCHANGED <<gcd_attempt, cars, car_cards, navigations>>
    /\ ExtractFrame

(***************************************************************************)
(* ScraperMain.scrape_brand                                                *)
(***************************************************************************)
\* scrape_brand, line 44-46: car_data = {}, yesterday = yesterday's date
scrape_brand_begin ==
    /\ brand_pc = "begin"
    /\ car_data' = EmptyDict
    /\ started_at' = now
    /\ yesterday' = FormatDate(now - SecondsPerDay)
    /\ brand_pc' = "acquire"
    /\ UNCHANGED <<now, urls, url_idx, page, result, page_attempt, sp, page_log>>
    /\ UNCHANGED <<uploadVars, orchVars>>
    /\ UNCHANGED detailVars

\* scrape_brand, line 48: async with semaphore (the wait for a permit takes
\* time)
scrape_brand_acquire ==
    /\ brand_pc = "acquire"
    /\ \E t \in Later(now) : now' = t
    /\ brand_pc' = "launch"
    /\ UNCHANGED <<urls, started_at, yesterday, car_data, url_idx, page, result,
                   page_attempt, sp, page_log>>
    /\ UNCHANGED <<uploadVars, orchVars>>
    /\ UNCHANGED detailVars

\* a variant of NextPage that passes over a page of the template
NextPage_skipsOne(us, k, p) ==
    [done |-> k > Len(us) \/ p + 1 > us[k], url_idx |-> k, page |-> p + 1]

\* the loops of line 61-62 at (k, p): the next (url_idx, page) with
\* page <= page_count, or the end of the loops
RECURSIVE NextPage(_, _, _)
NextPage(us, k, p) ==
    IF k > Len(us) THEN [done |-> TRUE, url_idx |-> k, page |-> p]
    ELSE IF p <= us[k] THEN [done |-> FALSE, url_idx |-> k, page |-> p]
    ELSE NextPage(us, k + 1, 1)

\* a variant of PageTarget that takes the day before the clock t
PageTarget_recomputed(t) == FormatDate(t - SecondsPerDay)

\* scrape_brand, line 64: the argument `yesterday` of the scrape_page call
\* made at clock t, the local variable assigned at line 46
PageTarget(t) == yesterday

\* scrape_brand enters scrape_page for the page at (k, p), or leaves the loops
EnterPage(k, p) ==
    LET nxt == NextPage(urls, k, p)
    IN /\ url_idx' = nxt.url_idx
       /\ page' = nxt.page
       /\ IF nxt.done
          THEN /\ brand_pc' = "close"
               /\ UNCHANGED <<result, page_attempt, sp>>
          ELSE \* scrape_page, line 82-84: result = {}, first attempt
               /\ brand_pc' = "scrape_page"
               /\ result' = EmptyDict
               /\ page_attempt' = 0
               /\ sp' = NewPageCall(<<nxt.url_idx, nxt.page>>, PageTarget(now'))

\* scrape_brand, line 49-58: the browser and its context are launched; an
\* exception is caught at line 75 and the job returns car_data
scrape_brand_launch ==
    /\ brand_pc = "launch"
    /\ \E launched \in BOOLEAN, t \in Later(now) :
         /\ now' = t
         /\ IF launched
            THEN EnterPage(1, 1)
            ELSE /\ brand_pc' = "done"
                 /\ UNCHANGED <<url_idx, page, result, page_attempt, sp>>
    /\ UNCHANGED <<urls, started_at, yesterday, car_data, page_log>>
    /\ UNCHANGED <<uploadVars, orchVars>>
    /\ UNCHANGED detailVars

\* scrape_brand, line 70: await asyncio.sleep(self.page_delay), then the next
\* page
scrape_brand_page_delay ==
    /\ brand_pc = "page_delay"
    /\ \E t \in Later(now) : now' = t
    /\ EnterPage(url_idx, page + 1)
    /\ UNCHANGED <<urls, started_at, yesterday, car_data, page_log>>
    /\ UNCHANGED <<uploadVars, orchVars>>
    /\ UNCHANGED detailVars

\* scrape_brand, line 72-78: context and browser are closed (an exception is
\* caught at line 75), the semaphore is released, car_data is returned
scrape_brand_close ==
    /\ brand_pc = "close"
    /\ \E t \in Later(now) : now' = t
    /\ brand_pc' = "done"
    /\ UNCHANGED <<urls, started_at, yesterday, car_data, url_idx, page, result,
                   page_attempt, sp, page_log>>
    /\ UNCHANGED <<uploadVars, orchVars>>
    /\ UNCHANGED detailVars

\* the (url_template, page_count) lists of the model: one or two templates,
\* at most MaxPages pages in all
UrlLists ==
    {<<n>> : n \in 1..MaxPages} \cup {<<1, MaxPages - 1>>}

\* the variables of scrape_all_brands outside a run of it
IdleOrchestrator ==
    /\ brands = 0
    /\ chunk_size = self_chunk_size
    /\ chunk_index = 1
    /\ task_idx = 1
    /\ tasks = <<>>
    /\ job = <<>>
    /\ semaphore = [value |-> SemaphoreCapacity, waiters |-> <<>>]
    /\ chunk_sleeps = <<>>

\* the brand variables before any job runs
IdleBrand ==
    /\ now = FirstInstant
    /\ urls = <<1>>
    /\ brand_pc = "idle"
    /\ started_at = 0
    /\ yesterday = DateToken(0)
    /\ car_data = EmptyDict
    /\ url_idx = 1
    /\ page = 1
    /\ result = EmptyDict
    /\ page_attempt = 0
    /\ sp = [NewPageCall(<<0, 0>>, DateToken(0)) EXCEPT !.status = "idle"]
    /\ page_log = <<>>

\* the artifact file save_to_excel writes for brand b on day d
ExcelFile(b, d) == <<b, d>>

(***************************************************************************)
(* ScraperMain.scrape_all_brands: chunks, tasks and the semaphore.  In     *)
(* Spec the page loop of a category job is one step (SpecBrand follows it  *)
(* page by page and attempt by attempt) and its dataset is kept as empty   *)
(* or not.  The upload phase is one step (SpecUpload follows it request by *)
(* request), and the remote store is not tracked.                          *)
(***************************************************************************)
Min(a, b) == IF a <= b THEN a ELSE b

\* a variant of BrandChunks whose chunks take one brand more
BrandChunks_overlapping(n, cs) ==
    [k \in 1..((n + cs - 1) \div cs) |->
        [j \in 1..(Min(k * cs + 1, n) - (k - 1) * cs) |-> (k - 1) * cs + j]]

\* scrape_all_brands, line 114-117: brand_chunks, for n brands in chunks of cs
BrandChunks(n, cs) ==
    [k \in 1..((n + cs - 1) \div cs) |->
        [j \in 1..(Min(k * cs, n) - (k - 1) * cs) |-> (k - 1) * cs + j]]

brand_chunks == BrandChunks(brands, chunk_size)

\* a scrape_brand coroutine that has not been created
\* (yesterday: its target date, line 46; error: the handler of line 75-76 has
\* run in it)
NoJob == [pc |-> "none", yesterday |-> DateToken(0), car_data |-> {},
          error |-> FALSE]

\* a variant of Locked that always grants a permit
Locked_never(sem) == FALSE

\* asyncio.Semaphore.locked(): no free permit, or a waiter is queued
Locked(sem) == sem.value = 0 \/ sem.waiters # <<>>

\* a variant of Release that keeps the permit
Release_leak(sem) == sem

\* asyncio.Semaphore.release()
Release(sem) == [sem EXCEPT !.value = @ + 1]

\* a variant of TaskDone that does not wait for the coroutine
TaskDone_noWait(b) == TRUE

\* `await task` can return: the coroutine of brand b has returned
TaskDone(b) == job[b].pc = "done"

\* a variant of setup in which the first task is created before the Google
\* Drive setup is found to have failed
setup_late ==
    /\ pc = "setup"
    /\ \E drive_ok \in BOOLEAN :
         IF drive_ok
         THEN /\ semaphore' = [value |-> SemaphoreCapacity, waiters |-> <<>>]
              /\ pending_uploads' = <<>>
              /\ chunk_index' = 1
              /\ task_idx' = 1
              /\ tasks' = <<>>
              /\ job' = job
              /\ pc' = IF Len(brand_chunks) = 0 THEN "done" ELSE "create_task"
         ELSE /\ pc' = "aborted"
              /\ job' = [job EXCEPT ![1].pc = "begin"]
              /\ UNCHANGED <<semaphore, pending_uploads, chunk_index, task_idx, tasks>>
    /\ UNCHANGED <<uploaded_files, disk, artifacts, fileIdx, attempt, parentIdx,
                   folder_id, folder_name, i, uf, drive_folders, drive_files,
                   upload_sleeps, uploads_attempted>>
    /\ UNCHANGED <<brands, chunk_size, chunk_sleeps>>
    /\ UNCHANGED brandVars
    /\ UNCHANGED detailVars

\* scrape_all_brands, line 111-133: the chunks, the semaphore and the Google
\* Drive setup, which returns from the function when it fails
setup ==
    /\ pc = "setup"
    /\ \E drive_ok \in BOOLEAN :
         IF drive_ok
         THEN /\ semaphore' = [value |-> SemaphoreCapacity, waiters |-> <<>>]
              /\ pending_uploads' = <<>>
              /\ chunk_index' = 1
              /\ task_idx' = 1
              /\ tasks' = <<>>
              /\ pc' = IF Len(brand_chunks) = 0 THEN "done" ELSE "create_task"
         ELSE /\ pc' = "aborted"
              /\ UNCHANGED <<semaphore, pending_uploads, chunk_index, task_idx, tasks>>
    /\ UNCHANGED <<uploaded_files, disk, artifacts, fileIdx, attempt, parentIdx,
                   folder_id, folder_name, i, uf, drive_folders, drive_files,
                   upload_sleeps, uploads_attempted>>
    /\ UNCHANGED <<brands, chunk_size, job, chunk_sleeps>>
    /\ UNCHANGED brandVars
    /\ UNCHANGED detailVars

\* scrape_all_brands, line 139-142: one pass of the loop that creates the
\* tasks: create_task, tasks.append, await asyncio.sleep(2)
create_task ==
    /\ pc = "create_task"
    /\ LET chunk == brand_chunks[chunk_index]
           b == chunk[task_idx]
       IN /\ job' = [job EXCEPT ![b] = [NoJob EXCEPT !.pc = "begin"]]
          /\ tasks' = Append(tasks, b)
          /\ IF task_idx < Len(chunk)
             THEN /\ task_idx' = task_idx + 1
                  /\ pc' = pc
             ELSE /\ task_idx' = 1
                  /\ pc' = "await_task"
    /\ \E t \in Later(now) : now' = t
    /\ UNCHANGED <<pending_uploads, uploaded_files, disk, artifacts, fileIdx,
                   attempt, parentIdx, folder_id, folder_name, i, uf, drive_folders,
                   drive_files, upload_sleeps, uploads_attempted>>
    /\ UNCHANGED <<brands, chunk_size, chunk_index, semaphore, chunk_sleeps>>
    /\ UNCHANGED <<urls, brand_pc, started_at, yesterday, car_data, url_idx,
                   page, result, page_attempt, sp, page_log>>
    /\ UNCHANGED detailVars

\* strftime('%Y%m%d') of the instant t
FormatDay(t) == t \div SecondsPerDay

\* a variant of excel_file that leaves the brand out of the path
excel_file_byDate(b, t) == ExcelFile(1, FormatDay(t))

\* save_to_excel, line 197: the path of the artifact of brand b at clock t
excel_file(b, t) == ExcelFile(b, FormatDay(t))

\* a variant of MoreTasks that ends the loop after its first pass
MoreTasks_none(k) == FALSE

\* scrape_all_brands, line 144: `for brand_name, task in tasks` has another
\* pass after pass k
MoreTasks(k) == k < Len(tasks)

\* a variant of HasData that takes every dataset for a non-empty one
HasData_always(data) == TRUE

\* scrape_all_brands, line 147: `if car_data:` for the dict a job returned
HasData(data) == data # {}

\* a variant of Queues that queues the path of a failed save as well
Queues_always(saved) == TRUE

\* scrape_all_brands, line 149: `if excel_file:` for what save_to_excel
\* returned, the path when the file was saved and None (line 209) when not
Queues(saved) == saved

\* scrape_all_brands, line 144-153: one pass of the loop that awaits the
\* tasks: await task, and for a non-empty dataset save_to_excel (line
\* 195-209), whose path is appended to pending_uploads unless it failed.  A
\* failed save may leave a file behind.
await_task ==
    /\ pc = "await_task"
    /\ LET b == tasks[task_idx]
           file == excel_file(b, now)
       IN /\ TaskDone(b)
          /\ IF HasData(job[b].car_data)
             THEN \E saved \in BOOLEAN, left \in BOOLEAN :
                    /\ saved => left
                    /\ disk' = IF left THEN disk \cup {file} ELSE disk
                    /\ artifacts' = IF saved THEN artifacts \cup {file}
                                    ELSE artifacts
                    /\ pending_uploads' = IF Queues(saved)
                                          THEN Append(pending_uploads, file)
                                          ELSE pending_uploads
             ELSE UNCHANGED <<disk, artifacts, pending_uploads>>
    /\ IF MoreTasks(task_idx)
       THEN /\ task_idx' = task_idx + 1
            /\ pc' = pc
       ELSE /\ task_idx' = 1
            /\ pc' = "upload_phase"
    /\ UNCHANGED <<uploaded_files, fileIdx, attempt, parentIdx, folder_id,
                   folder_name, i, uf, drive_folders, drive_files, upload_sleeps,
                   uploads_attempted>>
    /\ UNCHANGED <<brands, chunk_size, chunk_index, tasks, job, semaphore,
                   chunk_sleeps>>
    /\ UNCHANGED brandVars
    /\ UNCHANGED detailVars

\* the files of `files` outside `dropped`, in order
RECURSIVE Without(_, _)
Without(files, dropped) ==
    IF files = <<>> THEN <<>>
    ELSE IF Head(files) \in dropped THEN Without(Tail(files), dropped)
    ELSE <<Head(files)>> \o Without(Tail(files), dropped)

\* upload_files_with_retry, line 181-182: save_files is called for a pending
\* file that exists
SaveFilesCalled ==
    \E k \in 1..Len(pending_uploads) : pending_uploads[k] \in disk

\* a variant of upload_chunk that keeps the files not reported in the
\* pending list
upload_chunk_requeues ==
    /\ pc = "upload_phase"
    /\ IF pending_uploads # <<>>
       THEN \E raising \in SUBSET {pending_uploads[k] : k \in 1..Len(pending_uploads)} :
              LET missing == {pending_uploads[k] : k \in 1..Len(pending_uploads)} \ disk
                  reported == Without(pending_uploads, raising \cup missing)
              IN /\ uploaded_files' = reported
                 /\ pending_uploads' =
                        Without(pending_uploads, {reported[k] : k \in 1..Len(reported)})
                 /\ \E failing \in SUBSET {reported[k] : k \in 1..Len(reported)} :
                      disk' = RemoveAll(reported, failing, disk)
       ELSE UNCHANGED <<uploaded_files, disk, pending_uploads>>
    /\ uploads_attempted' = uploads_attempted \cup {chunk_index}
    /\ pc' = "chunk_wait"
    /\ \E t \in Later(now) :
         /\ now' = t
         /\ \E u \in Later(now) :
              /\ u <= t
              /\ folder_name' = IF SaveFilesCalled THEN save_files_yesterday(u)
                                ELSE folder_name
    /\ UNCHANGED <<artifacts, fileIdx, attempt, parentIdx, folder_id, i, uf,
                   drive_folders, drive_files, upload_sleeps>>
    /\ UNCHANGED orchVars
    /\ UNCHANGED <<urls, brand_pc, started_at, yesterday, car_data, url_idx,
                   page, result, page_attempt, sp, page_log>>
    /\ UNCHANGED detailVars

\* scrape_all_brands, line 155-167, as one step: upload_files_with_retry
\* reports every pending file that exists and for which one of the
\* upload_retries calls of save_files did not raise; the files reported are
\* removed (os.remove can fail); pending_uploads = [].  save_files names the
\* dated subfolder after the day before the instant u of its call.
upload_chunk ==
    /\ pc = "upload_phase"
    /\ IF pending_uploads # <<>>
       THEN \E raising \in SUBSET {pending_uploads[k] : k \in 1..Len(pending_uploads)} :
              LET missing == {pending_uploads[k] : k \in 1..Len(pending_uploads)} \ disk
                  reported == Without(pending_uploads, raising \cup missing)
              IN /\ uploaded_files' = reported
                 /\ \E failing \in SUBSET {reported[k] : k \in 1..Len(reported)} :
                      disk' = RemoveAll(reported, failing, disk)
       ELSE UNCHANGED <<uploaded_files, disk>>
    /\ pending_uploads' = <<>>
    /\ uploads_attempted' = uploads_attempted \cup {chunk_index}
    /\ pc' = "chunk_wait"
    /\ \E t \in Later(now) :
         /\ now' = t
         /\ \E u \in Later(now) :
              /\ u <= t
              /\ folder_name' = IF SaveFilesCalled THEN save_files_yesterday(u)
                                ELSE folder_name
    /\ UNCHANGED <<artifacts, fileIdx, attempt, parentIdx, folder_id, i, uf,
                   drive_folders, drive_files, upload_sleeps>>
    /\ UNCHANGED orchVars
    /\ UNCHANGED <<urls, brand_pc, started_at, yesterday, car_data, url_idx,
                   page, result, page_attempt, sp, page_log>>
    /\ UNCHANGED detailVars

\* a variant of SleepsAfter that sleeps after every chunk
SleepsAfter_everyChunk(k) == TRUE

\* scrape_all_brands, line 170: if chunk_index < len(brand_chunks)
SleepsAfter(k) == k < Len(brand_chunks)

\* scrape_all_brands, line 169-172 and 135-138: after every chunk but the
\* last, sleep chunk_delay and begin the next chunk (tasks = []); after the
\* last the function returns
chunk_wait ==
    /\ pc = "chunk_wait"
    /\ chunk_sleeps' = IF SleepsAfter(chunk_index)
                       THEN Append(chunk_sleeps, chunk_delay)
                       ELSE chunk_sleeps
    /\ IF chunk_index < Len(brand_chunks)
       THEN /\ \E t \in Later(now) : now' = t
            /\ chunk_index' = chunk_index + 1
            /\ tasks' = <<>>
            /\ task_idx' = 1
            /\ pc' = "create_task"
       ELSE /\ pc' = "done"
            /\ UNCHANGED <<now, chunk_index, tasks, task_idx>>
    /\ UNCHANGED <<pending_uploads, uploaded_files, disk, artifacts, fileIdx,
                   attempt, parentIdx, folder_id, folder_name, i, uf, drive_folders,
                   drive_files, upload_sleeps, uploads_attempted>>
    /\ UNCHANGED <<brands, chunk_size, job, semaphore>>
    /\ UNCHANGED <<urls, brand_pc, started_at, yesterday, car_data, url_idx,
                   page, result, page_attempt, sp, page_log>>
    /\ UNCHANGED detailVars

\* what the job actions leave alone
JobFrame ==
    /\ UNCHANGED uploadVars
    /\ UNCHANGED <<brands, chunk_size, chunk_index, task_idx, tasks, chunk_sleeps>>
    /\ UNCHANGED <<urls, brand_pc, started_at, yesterday, car_data, url_idx,
                   page, result, page_attempt, sp, page_log>>
    /\ UNCHANGED detailVars

\* scrape_brand, line 46, for brand b:
\* yesterday = (datetime.now() - timedelta(days=1)).strftime("%Y-%m-%d")
JobTarget(b) == FormatDate(now - SecondsPerDay)

\* scrape_brand, line 44-48, for brand b: car_data = {}, yesterday, and
\* semaphore.acquire(), which takes a permit at once when the semaphore is
\* not locked and queues the coroutine otherwise
job_begin(b) ==
    /\ job[b].pc = "begin"
    /\ IF ~Locked(semaphore)
       THEN /\ semaphore' = [semaphore EXCEPT !.value = @ - 1]
            /\ job' = [job EXCEPT ![b].pc = "launch",
                                  ![b].yesterday = JobTarget(b)]
       ELSE /\ semaphore' = [semaphore EXCEPT !.waiters = Append(@, b)]
            /\ job' = [job EXCEPT ![b].pc = "acquire",
                                  ![b].yesterday = JobTarget(b)]
    /\ now' = now
    /\ JobFrame

\* asyncio.Semaphore.acquire, woken: the first waiter takes the permit that
\* was released
job_acquire(b) ==
    /\ job[b].pc = "acquire"
    /\ semaphore.value > 0
    /\ Head(semaphore.waiters) = b
    /\ semaphore' = [value |-> semaphore.value - 1,
                     waiters |-> Tail(semaphore.waiters)]
    /\ job' = [job EXCEPT ![b].pc = "launch"]
    /\ now' = now
    /\ JobFrame

\* a variant of job_launch in which a failed launch cancels the other tasks
job_launch_cancelling(b) ==
    /\ job[b].pc = "launch"
    /\ \E launched \in BOOLEAN :
         IF launched
         THEN /\ job' = [job EXCEPT ![b].pc = "pages"]
              /\ semaphore' = semaphore
         ELSE /\ job' = [c \in DOMAIN job |->
                          IF c = b THEN [job[c] EXCEPT !.pc = "done", !.error = TRUE]
                          ELSE IF job[c].pc \in {"none", "done"} THEN job[c]
                          ELSE [job[c] EXCEPT !.pc = "cancelled"]]
              /\ semaphore' = Release(semaphore)
    /\ \E t \in Later(now) : now' = t
    /\ JobFrame

\* a variant of job_launch in which the permit is kept when the launch fails
job_launch_keepsPermit(b) ==
    /\ job[b].pc = "launch"
    /\ \E launched \in BOOLEAN :
         IF launched
         THEN job' = [job EXCEPT ![b].pc = "pages"]
         ELSE job' = [job EXCEPT ![b].pc = "done", ![b].error = TRUE]
    /\ semaphore' = semaphore
    /\ \E t \in Later(now) : now' = t
    /\ JobFrame

\* scrape_brand, line 49-58 for brand b: the browser is launched; an
\* exception is caught at line 75, the permit is released and car_data
\* returned
job_launch(b) ==
    /\ job[b].pc = "launch"
    /\ \E launched \in BOOLEAN :
         IF launched
         THEN /\ job' = [job EXCEPT ![b].pc = "pages"]
              /\ semaphore' = semaphore
         ELSE /\ job' = [job EXCEPT ![b].pc = "done", ![b].error = TRUE]
              /\ semaphore' = Release(semaphore)
    /\ \E t \in Later(now) : now' = t
    /\ JobFrame

\* scrape_brand, line 61-70 for brand b: the loop over the pages, each a
\* scrape_page call, the merge of its result and the page delay; the
\* dataset ends empty or not
job_pages(b) ==
    /\ job[b].pc = "pages"
    /\ \E records \in BOOLEAN :
         job' = [job EXCEPT ![b].car_data = IF records THEN {"records"} ELSE {},
                            ![b].pc = "close"]
    /\ \E t \in Later(now) : now' = t
    /\ semaphore' = semaphore
    /\ JobFrame

\* scrape_brand, line 72-78 for brand b: context and browser are closed (an
\* exception of the session is caught at line 75), the permit is released,
\* car_data is returned
job_close(b) ==
    /\ job[b].pc = "close"
    /\ \E raised \in BOOLEAN :
         job' = [job EXCEPT ![b].pc = "done", ![b].error = raised]
    /\ semaphore' = Release(semaphore)
    /\ now' = now
    /\ JobFrame

InitUpload ==
    /\ pc = "upload_phase"
    /\ \E n \in 0..MaxFiles :
         /\ pending_uploads = [k \in 1..n |-> ExcelFile(k, 0)]
         /\ disk = {ExcelFile(k, 0) : k \in 1..n}
         /\ artifacts = {ExcelFile(k, 0) : k \in 1..n}
    /\ uploaded_files = <<>>
    /\ fileIdx = 1
    /\ attempt = 0
    /\ parentIdx = 1
    /\ folder_id = NoId
    /\ folder_name = DateToken(0)
    /\ i = 0
    /\ uf = [NewUploadCall(ExcelFile(0, 0), 0) EXCEPT !.status = "idle"]
    /\ drive_folders \in [{parent_folder_ids[k] : k \in 1..Len(parent_folder_ids)}
                           -> {0, 1}]
    /\ drive_files = [fp \in {ExcelFile(k, 0) : k \in 1..MaxFiles}
                              \X {parent_folder_ids[k] : k \in 1..Len(parent_folder_ids)}
                      |-> 0]
    /\ upload_sleeps = <<>>
    /\ uploads_attempted = {}
    /\ IdleBrand
    /\ IdleOrchestrator
    /\ IdleDetails

NextUpload ==
    \/ upload_phase
    \/ upload_files_with_retry
    \/ save_files
    \/ save_files_return
    \/ upload_file
    \/ cleanup

SpecUpload == InitUpload /\ [][NextUpload]_vars

(***************************************************************************)
(* Spec: a run of scrape_all_brands                                        *)
(***************************************************************************)
\* the state when scrape_all_brands is called, at one of the instants `clock`
InitAt(clock) ==
    /\ pc = "setup"
    /\ brands \in 1..MaxBrands
    /\ chunk_size \in 1..MaxChunkSize
    /\ chunk_index = 1
    /\ task_idx = 1
    /\ tasks = <<>>
    /\ job = [b \in 1..brands |-> NoJob]
    /\ semaphore = [value |-> SemaphoreCapacity, waiters |-> <<>>]
    /\ chunk_sleeps = <<>>
    /\ now \in clock
    /\ pending_uploads = <<>>
    /\ uploaded_files = <<>>
    /\ disk = {}
    /\ artifacts = {}
    /\ fileIdx = 1
    /\ attempt = 0
    /\ parentIdx = 1
    /\ folder_id = NoId
    /\ folder_name = DateToken(0)
    /\ i = 0
    /\ uf = [NewUploadCall(ExcelFile(0, 0), 0) EXCEPT !.status = "idle"]
    /\ drive_folders = [p \in {parent_folder_ids[k] : k \in 1..Len(parent_folder_ids)} |-> 0]
    /\ drive_files = [fp \in {ExcelFile(k, 0) : k \in 1..MaxFiles}
                              \X {parent_folder_ids[k] : k \in 1..Len(parent_folder_ids)}
                      |-> 0]
    /\ upload_sleeps = <<>>
    /\ uploads_attempted = {}
    /\ urls = <<1>>
    /\ brand_pc = "idle"
    /\ started_at = 0
    /\ yesterday = DateToken(0)
    /\ car_data = EmptyDict
    /\ url_idx = 1
    /\ page = 1
    /\ result = EmptyDict
    /\ page_attempt = 0
    /\ sp = [NewPageCall(<<0, 0>>, DateToken(0)) EXCEPT !.status = "idle"]
    /\ page_log = <<>>
    /\ IdleDetails

Next ==
    \/ setup
    \/ create_task
    \/ await_task
    \/ upload_chunk
    \/ chunk_wait
    \/ \E b \in 1..brands : job_begin(b)
    \/ \E b \in 1..brands : job_acquire(b)
    \/ \E b \in 1..brands : job_launch(b)
    \/ \E b \in 1..brands : job_pages(b)
    \/ \E b \in 1..brands : job_close(b)

\* a run by day
Init == InitAt(DayClockValues)

Spec == Init /\ [][Next]_vars

\* a run that begins at 23:00 or later and can cross midnight
InitMidnight == InitAt(ClockValues)

SpecMidnight == InitMidnight /\ [][Next]_vars

\* the event loop runs a coroutine that is ready, and every await of the
\* program ends (sleeps, and requests under their timeouts)
FairSpec == Spec /\ WF_vars(Next)

(***************************************************************************)
(* Claims about the upload phase, checked under SpecUpload.                *)
(***************************************************************************)
ParentIds == {parent_folder_ids[k] : k \in 1..Len(parent_folder_ids)}

\* the remote store holds a file created for f under parent p
Confirmed(f, p) == drive_files[<<f, p>>] > 0

ReportedUploaded(f) == \E k \in 1..Len(uploaded_files) : uploaded_files[k] = f

\* a failure of the class upload_file is documented to retry: an SSL EOF, or
\* an HTTP status of the allow-list
TransientFailure(o) ==
    \/ o.kind = "SSLEOFError"
    \/ o.kind = "HttpError" /\ o.status \in {403, 500, 503}

\* a failure outside that class
FatalFailure(o) ==
    \/ o.kind = "HttpError" /\ o.status \notin {403, 500, 503}
    \/ o.kind \in {"ConnectionError", "Exception"}

\* C2 (as claimed): an artifact is reported uploaded, or deleted from the
\* local directory, only if a remote file was created for it under every
\* configured parent folder.
C2_DeletedOnlyIfAllConfirmed ==
    \A file \in artifacts :
       (ReportedUploaded(file) \/ file \notin disk)
          => \A p \in ParentIds : Confirmed(file, p)

\* C8: when upload_file returns a file id after k failed requests, the id is
\* that of the file it created, k < 5, it made exactly k + 1 requests and the
\* delays it slept are 2^0, 2^1, ..., 2^(k-1), in that order.
C8_TransientThenSuccess ==
    (uf.status = "returned" /\ uf.last.kind = "ok")
       => /\ uf.result = FileId(uf.file, uf.parent)
          /\ Confirmed(uf.file, uf.parent)
          /\ uf.failures < 5
          /\ uf.attempts = uf.failures + 1
          /\ uf.sleeps = [k \in 1..uf.failures |-> 2 ^ (k - 1)]

\* C8 witness: a call that succeeded on its fifth request
C8_Witness ==
    /\ uf.status = "returned"
    /\ uf.last.kind = "ok"
    /\ uf.failures = 4
    /\ uf.sleeps = <<1, 2, 4, 8>>

\* C9: upload_file never makes a sixth request, and a call whose requests
\* all failed transiently returns, without an id, after exactly five.
C9_ExhaustedAfterBound ==
    /\ uf.attempts <= 5
    /\ (uf.status = "returned" /\ TransientFailure(uf.last))
          => /\ uf.attempts = 5
             /\ uf.failures = 5
             /\ uf.result = NoId
    /\ (uf.status = "running" /\ TransientFailure(uf.last)) => uf.attempts < 5

\* C9 witness: a call that returned after five transient failures
C9_Witness ==
    /\ uf.status = "returned"
    /\ TransientFailure(uf.last)
    /\ uf.attempts = 5

\* C10: once a request fails with a failure outside the retryable class the
\* call is over: it has returned without an id, and no delay was slept for
\* that request (the delays are those of the earlier, retried failures).
C10_FatalAbortsAtOnce ==
    FatalFailure(uf.last)
       => /\ uf.status = "returned"
          /\ uf.result = NoId
          /\ Len(uf.sleeps) = uf.attempts - 1

\* C10 witness: a fatal HTTP status on the third request, after two retried ones
C10_Witness ==
    /\ uf.last = [kind |-> "HttpError", status |-> 404]
    /\ uf.attempts = 3
    /\ uf.status = "returned"

\* the failures the specification calls transient: a network or connection
\* failure, a rate-limit status, a server-error status
TransientClass(o) ==
    \/ o.kind \in {"SSLEOFError", "ConnectionError"}
    \/ o.kind = "HttpError" /\ o.status \in {429, 500, 503}

\* C11: every upload failure of the transient class (network/connection,
\* rate-limit status, server-error status) is retried by upload_file: a call
\* whose last create request failed that way has made all 5 attempts.
C11_TransientClassRetried ==
    (uf.status = "returned" /\ TransientClass(uf.last)) => uf.attempts = 5

\* C12: folder resolution is idempotent: whatever number of save_files calls
\* were made on the day, each destination holds at most one subfolder of the
\* date, and every create_folder call that returned an id returned that
\* folder's id.
C12_FolderResolutionIdempotent ==
    /\ \A p \in ParentIds : drive_folders[p] <= 1
    /\ folder_id # NoId => folder_id = FolderId(folder_id[1], 1)

\* C12 happens: save_files runs for a second file after the first call
\* resolved both dated folders and uploaded into them, and resolves the same
\* folder again
C12_Witness ==
    /\ fileIdx = 2
    /\ pc = "upload_file"
    /\ \A p \in ParentIds :
         drive_folders[p] = 1 /\ drive_files[<<pending_uploads[1], p>>] = 1
    /\ folder_id = FolderId(uf.parent, 1)
    /\ uf.file = pending_uploads[2]

\* an upload_file call returns None in this step: a failure that is not
\* retried, or the last of the 5 attempts failed
UploadFails ==
    pc = "upload_file" /\ uf'.status = "returned" /\ uf'.result = NoId

\* C28: when upload_file fails for an artifact at one destination (fatal
\* error or attempts used up), nothing is raised to the callers: save_files
\* goes on with the next destination of the same artifact, in the same
\* attempt of upload_files_with_retry, and the pending list is left as it
\* is, so the artifacts after it get their own save_files call.
C28_FailureContained ==
    [][UploadFails
          => /\ pc' = "save_files"
             /\ parentIdx' = parentIdx + 1
             /\ fileIdx' = fileIdx
             /\ attempt' = attempt
             /\ pending_uploads' = pending_uploads
             /\ uploaded_files' = uploaded_files]_vars

\* C28 witness: no file was created for the first artifact at any
\* destination; the upload of the second artifact to the first destination
\* has failed after 5 attempts and save_files is about to go on with the
\* second destination
C28_Witness ==
    /\ Len(pending_uploads) = 2
    /\ fileIdx = 2
    /\ pc = "save_files"
    /\ parentIdx = 2
    /\ \A p \in ParentIds : drive_files[<<pending_uploads[1], p>>] = 0
    /\ uf.file = pending_uploads[2]
    /\ uf.parent = parent_folder_ids[1]
    /\ uf.status = "returned" /\ uf.result = NoId /\ uf.attempts = 5

\* C29 (as claimed): no artifact has more than one file created for it at
\* one destination in the run.
C29_CreatedAtMostOnce ==
    \A fp \in DOMAIN drive_files : drive_files[fp] <= 1

\* in this step save_files asks create_folder for the dated subfolder of a
\* destination and gets None
FolderFails ==
    /\ pc = "save_files"
    /\ parentIdx <= Len(parent_folder_ids)
    /\ folder_id' = NoId

\* C37: when create_folder returns no id for a destination, save_files calls
\* upload_file for no file at that destination (no request is made, no file
\* created), raises nothing to upload_files_with_retry, and goes on with the
\* next destination.
C37_FolderFailureSkipsDestination ==
    [][FolderFails
          => /\ pc' = "save_files"
             /\ parentIdx' = parentIdx + 1
             /\ uf' = uf
             /\ drive_files' = drive_files
             /\ attempt' = attempt
             /\ fileIdx' = fileIdx
             /\ upload_sleeps' = upload_sleeps]_vars

\* C37 witness: the dated subfolder of the first destination could not be
\* created; the first upload of the run is to the second destination, in the
\* same save_files call
C37_Witness ==
    /\ pc = "upload_file"
    /\ fileIdx = 1
    /\ attempt = 0
    /\ drive_folders[parent_folder_ids[1]] = 0
    /\ uf.parent = parent_folder_ids[2]
    /\ uf.file = pending_uploads[1]

(***************************************************************************)
(* SpecBrand: one category job                                             *)
(***************************************************************************)
InitBrand ==
    /\ now \in ClockValues
    /\ urls \in UrlLists
    /\ brand_pc = "begin"
    /\ started_at = 0
    /\ yesterday = DateToken(0)
    /\ car_data = EmptyDict
    /\ url_idx = 1
    /\ page = 1
    /\ result = EmptyDict
    /\ page_attempt = 0
    /\ sp = [NewPageCall(<<0, 0>>, DateToken(0)) EXCEPT !.status = "idle"]
    /\ page_log = <<>>
    /\ pc = "idle"
    /\ pending_uploads = <<>>
    /\ uploaded_files = <<>>
    /\ disk = {}
    /\ artifacts = {}
    /\ fileIdx = 1
    /\ attempt = 0
    /\ parentIdx = 1
    /\ folder_id = NoId
    /\ folder_name = DateToken(0)
    /\ i = 0
    /\ uf = [NewUploadCall(ExcelFile(0, 0), 0) EXCEPT !.status = "idle"]
    /\ drive_folders = [p \in ParentIds |-> 0]
    /\ drive_files = [fp \in {ExcelFile(k, 0) : k \in 1..MaxFiles} \X ParentIds |-> 0]
    /\ upload_sleeps = <<>>
    /\ uploads_attempted = {}
    /\ IdleOrchestrator
    /\ IdleDetails

NextBrand ==
    \/ scrape_brand_begin
    \/ scrape_brand_acquire
    \/ scrape_brand_launch
    \/ scrape_page
    \/ scrape_brand_page_delay
    \/ scrape_brand_close

SpecBrand == InitBrand /\ [][NextBrand]_vars

(***************************************************************************)
(* SpecExtract: one call of scrape_page, with its get_car_details calls    *)
(* followed attempt by attempt                                             *)
(***************************************************************************)
InitExtract ==
    /\ now \in ClockValues
    /\ urls = <<1>>
    /\ brand_pc = "scrape_page"
    /\ started_at = now
    /\ yesterday = FormatDate(now - SecondsPerDay)
    /\ car_data = EmptyDict
    /\ url_idx = 1
    /\ page = 1
    /\ result = EmptyDict
    /\ page_attempt = 0
    /\ sp = NewPageCall(<<1, 1>>, FormatDate(now - SecondsPerDay))
    /\ page_log = <<>>
    /\ pc = "idle"
    /\ pending_uploads = <<>>
    /\ uploaded_files = <<>>
    /\ disk = {}
    /\ artifacts = {}
    /\ fileIdx = 1
    /\ attempt = 0
    /\ parentIdx = 1
    /\ folder_id = NoId
    /\ folder_name = DateToken(0)
    /\ i = 0
    /\ uf = [NewUploadCall(ExcelFile(0, 0), 0) EXCEPT !.status = "idle"]
    /\ drive_folders = [p \in ParentIds |-> 0]
    /\ drive_files = [fp \in {ExcelFile(k, 0) : k \in 1..MaxFiles} \X ParentIds |-> 0]
    /\ upload_sleeps = <<>>
    /\ uploads_attempted = {}
    /\ IdleOrchestrator
    /\ details_pc = "idle"
    /\ relative_date = RelNone
    /\ date_published = PyNone
    /\ details_raised = FALSE
    /\ gcd_pc = "idle"
    /\ gcd_attempt = 0
    /\ cars = <<>>
    /\ car_cards \in PageContents
    /\ navigations = <<>>

NextExtract ==
    \/ get_car_details_begin
    \/ get_car_details_attempt
    \/ get_car_details_return

SpecExtract == InitExtract /\ [][NextExtract]_vars

(***************************************************************************)
(* Claims about one category job, checked under SpecBrand.                 *)
(***************************************************************************)
\* the details of a dict of lists, as a set
Details(d) == UNION {{d[k][n] : n \in 1..Len(d[k])} : k \in DOMAIN d}

\* the number of pages of the job
RECURSIVE TotalPages(_)
TotalPages(us) == IF us = <<>> THEN 0 ELSE Head(us) + TotalPages(Tail(us))

\* detail x is in the list that dict d holds under key k
Holds(d, k, x) == k \in DOMAIN d /\ \E n \in 1..Len(d[k]) : d[k][n] = x

\* C4: whatever happened to the other pages, the dataset of the job holds,
\* under the same car type, every record that scrape_page returned for a page;
\* and a job whose browser was launched calls scrape_page for every one of
\* its pages before it ends, whether earlier pages failed or not.
C4_PartialResultTolerance ==
    /\ \A e \in 1..Len(page_log) :
          \A k \in DOMAIN page_log[e].result :
             \A n \in 1..Len(page_log[e].result[k]) :
                Holds(car_data, k, page_log[e].result[k][n])
    /\ (brand_pc = "done" /\ sp.status # "idle")
          => Len(page_log) = TotalPages(urls)

\* C4 witness: a job of three pages has ended; page 2 failed on all its
\* attempts, pages 1 and 3 succeeded with records, which the dataset holds
C4_Witness ==
    /\ brand_pc = "done"
    /\ Len(page_log) = 3
    /\ page_log[1].ok /\ ~page_log[2].ok /\ page_log[3].ok
    /\ \E x \in Details(car_data) : x.link[1] = page_log[1].url
    /\ \E x \in Details(car_data) : x.link[1] = page_log[3].url

\* C5: every record scrape_page retains, in its result and in the dataset of
\* the job, has a publication timestamp whose date is the day before the day
\* the job began (its target date), wherever the clock stands now.
C5_RetainedOnTargetDate ==
    \A x \in Details(result) \cup Details(car_data) :
       /\ x.date_published.py = "str"
       /\ x.date_published.tokens[1]
             = DateToken((started_at \div SecondsPerDay) - 1)

\* C5 witness: the job began before midnight, and its dataset holds a record
\* normalized after midnight
C5_Witness ==
    /\ started_at = FirstInstant
    /\ \E x \in Details(car_data) :
          x.date_published = FormatDateTime(FirstInstant + TickSeconds - 26 * 3600)

\* C6 (as claimed): a scrape_page call whose attempts all failed returns an
\* empty dict.
C6_EmptyResultAfterAllFailed ==
    (sp.status = "returned" /\ sp.failed) => result = EmptyDict

\* C7: scrape_page calls get_car_details at most 3 times and makes no call
\* after one that succeeded; the delays slept are 5 after the first failed
\* attempt and 10 after the second, and none after the third.
C7_LinearBackoff ==
    /\ sp.attempts <= 3
    /\ sp.sleeps = SubSeq(<<5, 10>>, 1, Len(sp.sleeps))
    /\ sp.status = "running"
          => /\ brand_pc = "scrape_page"
             /\ Len(sp.sleeps) = sp.attempts
             /\ sp.attempts > 0 => sp.failed
    /\ (sp.status = "returned" /\ ~sp.failed)
          => Len(sp.sleeps) = sp.attempts - 1
    /\ (sp.status = "returned" /\ sp.failed)
          => sp.attempts = 3 /\ sp.sleeps = <<5, 10>>
    /\ sp.status = "returned" => brand_pc # "scrape_page"

\* C7 witness: a call that succeeded on its third attempt, after sleeping 5
\* and 10
C7_Witness ==
    /\ sp.status = "returned"
    /\ ~sp.failed
    /\ sp.attempts = 3
    /\ sp.sleeps = <<5, 10>>


(***************************************************************************)
(* Claims about scrape_all_brands, checked under Spec.                     *)
(***************************************************************************)
\* the jobs between acquiring and releasing the semaphore
InsideSemaphore == {b \in 1..brands : job[b].pc \in {"launch", "pages", "close"}}

\* the chunk that brand b belongs to
ChunkOf(b) == ((b - 1) \div chunk_size) + 1

\* the jobs that have been created
Created == {b \in 1..brands : job[b].pc # "none"}

\* C1: in every reachable state of scrape_all_brands, for every number of
\* brands and every chunk size, the number of brand jobs inside the
\* semaphore-guarded section of scrape_brand is at most the capacity, 2.
C1_ConcurrencyBound ==
    /\ Cardinality(InsideSemaphore) <= 2
    /\ Cardinality(InsideSemaphore) <= SemaphoreCapacity

\* C1 happens: three jobs of one chunk are alive, two hold the semaphore and
\* fetch pages, the third waits for a permit
C1_Witness ==
    /\ Cardinality(InsideSemaphore) = 2
    /\ \E b \in InsideSemaphore : job[b].pc = "pages"
    /\ \E b \in 1..brands : job[b].pc = "acquire" /\ semaphore.waiters = <<b>>

\* C3: chunks run strictly in sequence: when a job of chunk k+1 has been
\* created, every job of chunk k has finished and the upload phase of chunk
\* k, cleanup included, is over (nothing is left pending from it).
C3_ChunksInSequence ==
    \A b \in Created :
        \A k \in 1..(ChunkOf(b) - 1) :
            /\ \A c \in 1..brands : ChunkOf(c) = k => job[c].pc = "done"
            /\ k \in uploads_attempted
            /\ \A n \in 1..Len(pending_uploads) : ChunkOf(pending_uploads[n][1]) > k

\* C3 happens: a job of the second chunk is fetching pages after the first
\* chunk, of two jobs or more, left an artifact that was uploaded and removed
C3_Witness ==
    /\ chunk_size >= 2
    /\ \E b \in Created : ChunkOf(b) = 2 /\ job[b].pc = "pages"
    /\ \E f \in artifacts : ChunkOf(f[1]) = 1 /\ f \notin disk
    /\ 1 \in uploads_attempted

\* the run is over and every job has returned
AllJobsCompleted ==
    /\ pc = "done"
    /\ \A c \in 1..brands : job[c].pc = "done"

\* C13: jobs are isolated: once a job-level exception has been caught in the
\* scrape_brand of a brand (it returned its dataset without raising), the
\* run still goes on until every job of its chunk and of the later chunks
\* has returned and been awaited by the chunk loop; none is cancelled.
C13_JobsIsolated ==
    (\E b \in DOMAIN job : job[b].error) ~> AllJobsCompleted

\* C13 happens: the run is over; a job failed with an empty dataset, a job
\* of the same chunk and a job of a later chunk were exported, and a job
\* whose session broke after its pages was exported too
C13_Witness ==
    /\ AllJobsCompleted
    /\ \E b, c, d \in 1..brands :
         /\ job[b].error /\ job[b].car_data = {}
         /\ c # b /\ ChunkOf(c) = ChunkOf(b) /\ ~job[c].error
         /\ \E f \in artifacts : f[1] = c
         /\ ChunkOf(d) > ChunkOf(b)
         /\ job[d].error /\ \E f \in artifacts : f[1] = d

\* C17: the run always completes: whatever fetches, exports, folder
\* resolutions and uploads fail, scrape_all_brands eventually returns (the
\* event loop being fair and every await ending).
C17_RunCompletes == <>(pc \in {"done", "aborted"})

\* C17 happens: the run of two chunks or more is over although a job failed,
\* an export failed and an artifact could not be uploaded or removed
C17_Witness ==
    /\ pc = "done"
    /\ Len(brand_chunks) >= 2
    /\ \E b \in 1..brands : job[b].error
    /\ \E b \in 1..brands :
         job[b].car_data # {} /\ \A f \in artifacts : f[1] # b
    /\ artifacts \cap disk # {}

\* C18: when the Google Drive setup fails (credentials missing or invalid),
\* scrape_all_brands returns before any work: no job was created, no
\* artifact written, nothing queued and no upload phase entered.
C18_NoWorkWithoutCredentials ==
    pc = "aborted" =>
        /\ \A b \in 1..brands : job[b] = NoJob
        /\ artifacts = {} /\ disk = {}
        /\ pending_uploads = <<>> /\ uploaded_files = <<>>
        /\ uploads_attempted = {}
        /\ tasks = <<>>

\* C18 happens: the setup failed in a run configured with several brands
C18_Witness ==
    /\ pc = "aborted"
    /\ brands >= 2
    /\ chunk_size < brands

\* how many times file f is in the pending list
TimesPending(f) ==
    Cardinality({n \in 1..Len(pending_uploads) : pending_uploads[n] = f})

\* C20: an artifact exists only once the task of its brand has completed,
\* and it is handed to upload_files_with_retry exactly once: it is in the
\* pending list, once, from its creation to the upload phase of its own
\* chunk, and never after it; the pending list holds nothing else.
C20_ArtifactHandedOnce ==
    /\ \A f \in artifacts :
         /\ job[f[1]].pc = "done"
         /\ IF ChunkOf(f[1]) \in uploads_attempted
            THEN TimesPending(f) = 0
            ELSE TimesPending(f) = 1 /\ ChunkOf(f[1]) = chunk_index
    /\ \A n \in 1..Len(pending_uploads) : pending_uploads[n] \in artifacts

\* C20 happens: the second chunk has queued its artifact while an artifact of
\* the first chunk, whose upload was given up, is still on disk
C20_Witness ==
    /\ chunk_index = 2
    /\ pending_uploads # <<>>
    /\ \E f \in artifacts \cap disk :
         ChunkOf(f[1]) = 1 /\ TimesPending(f) = 0

\* the jobs that have computed their target date
Begun == {b \in 1..brands : job[b].pc \notin {"none", "begin"}}

\* C21 (as claimed): any two jobs of a run, of the same chunk or not, filter
\* against the same target date, also when the clock crosses midnight during
\* the run.
C21_SingleTargetDay ==
    \A b \in Begun : \A c \in Begun : job[b].yesterday = job[c].yesterday

\* only files that save_to_excel has written are pending or reported
\* uploaded
C22_OnlySavedQueued ==
    /\ \A n \in 1..Len(pending_uploads) : pending_uploads[n] \in artifacts
    /\ \A n \in 1..Len(uploaded_files) : uploaded_files[n] \in artifacts

\* in this step the main coroutine awaits a task, calls save_to_excel for
\* its dataset, and the save fails
SaveFails ==
    /\ pc = "await_task"
    /\ <<pc, task_idx>>' # <<pc, task_idx>>
    /\ job[tasks[task_idx]].car_data # {}
    /\ excel_file(tasks[task_idx], now) \notin artifacts'

\* a failed save queues nothing, and the loop goes on with the next task of
\* the chunk, or with the upload phase after the last
C22_LoopGoesOn ==
    SaveFails
        => /\ pending_uploads' = pending_uploads
           /\ IF task_idx < Len(tasks)
              THEN pc' = "await_task" /\ task_idx' = task_idx + 1
              ELSE pc' = "upload_phase"

\* C22: an artifact whose save failed is never in the pending list and never
\* reported uploaded, and the failure does not end the loop over the tasks
\* of the chunk: the jobs after it are awaited, exported and queued.
C22_FailedExportNotQueued == []C22_OnlySavedQueued /\ [][C22_LoopGoesOn]_vars

\* C22 witness: the save failed for the first job of a chunk, which had
\* records; the artifact of the second job is pending at the upload phase
C22_Witness ==
    /\ pc = "upload_phase"
    /\ Len(tasks) >= 2
    /\ job[tasks[1]].car_data # {}
    /\ \A f \in artifacts : f[1] # tasks[1]
    /\ \E n \in 1..Len(pending_uploads) : pending_uploads[n][1] = tasks[2]

\* the files of the run are of different brands: no two have the same path
C31_OnePathPerBrand ==
    \A f \in artifacts \cup disk : \A g \in artifacts \cup disk :
       f[1] = g[1] => f = g

\* a step in which save_to_excel is called writes to a path that no file of
\* the run has
C31_WritesFreshPath ==
    (/\ pc = "await_task"
     /\ <<pc, task_idx>>' # <<pc, task_idx>>
     /\ job[tasks[task_idx]].car_data # {})
        => excel_file(tasks[task_idx], now) \notin artifacts \cup disk

\* C31: no two artifacts of a run have the same local path: save_to_excel
\* never writes to the path of a file written before in the run, by a job of
\* the same chunk or of an earlier one.
C31_ArtifactPathsUnique == []C31_OnePathPerBrand /\ [][C31_WritesFreshPath]_vars

\* C31 witness: the artifact of the second chunk is on disk together with
\* the two files of the first chunk, which were not removed
C31_Witness ==
    /\ pc = "upload_phase"
    /\ chunk_index = 2
    /\ Len(pending_uploads) = 1
    /\ Cardinality(disk) = 3
    /\ Cardinality({f \in disk : ChunkOf(f[1]) = 1}) = 2

\* C34 (as claimed): the dated subfolder into which save_files uploaded an
\* artifact has the date that the scrape_brand of its brand filtered the
\* records against, also when the clock crosses midnight between the start
\* of the job and the upload.
C34_FolderMatchesTarget ==
    \A k \in 1..Len(uploaded_files) :
        folder_name = job[uploaded_files[k][1]].yesterday

\* the permits are conserved: those available and those held by the jobs
\* inside the guarded section add up to the capacity, and the jobs that wait
\* are those queued on the semaphore
C32_PermitsConserved ==
    /\ pc \notin {"setup", "aborted"} =>
          /\ semaphore.value + Cardinality(InsideSemaphore) = SemaphoreCapacity
          /\ InsideSemaphore = {} => semaphore.value = 2
          /\ {b \in 1..brands : job[b].pc = "acquire"}
                = {semaphore.waiters[n] : n \in 1..Len(semaphore.waiters)}
    /\ (pc = "create_task" /\ task_idx = 1) =>
          /\ InsideSemaphore = {}
          /\ semaphore = [value |-> SemaphoreCapacity, waiters |-> <<>>]

\* no job waits for a permit forever: the jobs that wait being those queued
\* on the semaphore, the queue is empty again after any job has waited
C32_WaiterGetsPermit == []<>(semaphore.waiters = <<>>)

\* C32: permits are never leaked: a job that ends, normally, after a caught
\* job-level exception or after page failures, has released its permit, so
\* the semaphore has its full capacity of 2 whenever no job is inside the
\* guarded section, in particular when a chunk begins, and a job that waits
\* for a permit is never blocked forever.
C32_PermitsNeverLeaked == []C32_PermitsConserved /\ C32_WaiterGetsPermit

\* C32 happens: the second chunk begins with the full capacity after a job
\* of the first chunk failed at launch and the other failed when it closed
\* its session
C32_Witness ==
    /\ pc = "create_task" /\ task_idx = 1 /\ chunk_index = 2
    /\ semaphore.value = SemaphoreCapacity
    /\ \E b, c \in 1..brands :
         /\ b # c /\ ChunkOf(b) = 1 /\ ChunkOf(c) = 1
         /\ job[b].error /\ job[b].car_data = {}
         /\ job[c].error /\ job[c].car_data # {}

\* C35: the pending list is empty whenever a chunk begins, during the
\* chunk delay and at the end of the run, whatever became of the uploads; it
\* only ever holds artifacts of the chunk at work, so an artifact that was
\* not uploaded in its chunk is not offered again in a later one.
C35_PendingEmptyAtChunkStart ==
    /\ pc \in {"create_task", "chunk_wait", "done"} => pending_uploads = <<>>
    /\ \A n \in 1..Len(pending_uploads) :
          ChunkOf(pending_uploads[n][1]) = chunk_index

\* C35 witness: the second chunk begins with an empty pending list while an
\* artifact of the first chunk, not reported uploaded, is still on disk
C35_Witness ==
    /\ pc = "create_task"
    /\ chunk_index = 2
    /\ pending_uploads = <<>>
    /\ \E f \in artifacts \cap disk :
          /\ ChunkOf(f[1]) = 1
          /\ \A n \in 1..Len(uploaded_files) : uploaded_files[n] # f

\* the brands that have a file written by save_to_excel, on disk, pending
\* or reported uploaded
BrandsWithFile ==
    {f[1] : f \in artifacts \cup disk}
        \cup {pending_uploads[n][1] : n \in 1..Len(pending_uploads)}
        \cup {uploaded_files[n][1] : n \in 1..Len(uploaded_files)}

\* C36: a job that returned an empty dataset has no export artifact:
\* save_to_excel writes no file for its brand, nothing of it is pending and
\* nothing of it is handed to the upload.
C36_NoArtifactForEmptyDataset ==
    \A b \in BrandsWithFile : job[b].pc = "done" /\ job[b].car_data # {}

\* C36 witness: in a chunk of two jobs the first returned an empty dataset
\* and has no file, the second has its artifact pending
C36_Witness ==
    /\ pc = "upload_phase"
    /\ Len(tasks) = 2
    /\ job[tasks[1]].car_data = {}
    /\ ~job[tasks[1]].error
    /\ BrandsWithFile = {tasks[2]}
    /\ Len(pending_uploads) = 1

\* the brands of a list of chunks, in order
RECURSIVE Flatten(_)
Flatten(chunks) ==
    IF chunks = <<>> THEN <<>> ELSE Head(chunks) \o Flatten(Tail(chunks))

\* the chunks hold the brands 1..brands once each and in order; every chunk
\* but the last has chunk_size brands, the last from 1 to chunk_size
C26_Partition ==
    /\ Flatten(brand_chunks) = [b \in 1..brands |-> b]
    /\ \A k \in 1..Len(brand_chunks) :
          /\ Len(brand_chunks[k]) >= 1
          /\ Len(brand_chunks[k]) <= chunk_size
          /\ k < Len(brand_chunks) => Len(brand_chunks[k]) = chunk_size
    /\ pc = "done" => \A b \in 1..brands : job[b].pc = "done"

\* a task is created only for a brand that has had none
C26_CreatedOnce ==
    \A b \in 1..brands :
       (job'[b].pc = "begin" /\ job[b].pc # "begin") => job[b].pc = "none"

\* C26: the chunks of scrape_all_brands are an ordered partition of the
\* brands into chunks of chunk_size brands, the last one of 1 to chunk_size;
\* a task is created once for every brand, and never a second time.
C26_ChunksPartitionBrands == []C26_Partition /\ [][C26_CreatedOnce]_vars

\* C26 witness: a run over chunks of unequal sizes has ended
C26_Witness ==
    /\ pc = "done"
    /\ brands = MaxBrands
    /\ chunk_size = MaxBrands - 1
    /\ Len(brand_chunks) = 2
    /\ Len(brand_chunks[2]) = 1

\* the brands of chunk k
BrandsOf(k) == {b \in 1..brands : ChunkOf(b) = k}

\* C27: the upload phase of a chunk begins only when a task has been created
\* for every brand of the chunk and every one of these jobs has returned; the
\* jobs of a chunk whose upload phase is over have all returned, and the
\* pending list holds artifacts of returned jobs only.
C27_UploadAfterAllAwaited ==
    /\ pc = "upload_phase"
          => /\ {tasks[n] : n \in 1..Len(tasks)} = BrandsOf(chunk_index)
             /\ \A b \in BrandsOf(chunk_index) : job[b].pc = "done"
    /\ \A k \in uploads_attempted : \A b \in BrandsOf(k) : job[b].pc = "done"
    /\ \A n \in 1..Len(pending_uploads) : job[pending_uploads[n][1]].pc = "done"

\* C27 witness: the upload phase of a chunk of three jobs begins with two
\* artifacts pending; one job had failed at the launch
C27_Witness ==
    /\ pc = "upload_phase"
    /\ Len(tasks) = 3
    /\ Len(pending_uploads) = 2
    /\ \E b \in BrandsOf(chunk_index) : job[b].error /\ job[b].car_data = {}

\* C30: scrape_all_brands sleeps chunk_delay once after the upload phase of
\* every chunk but the last, before it creates the first task of the next
\* chunk, whether the chunk left artifacts or not; it does not sleep after
\* the last chunk.
C30_DelayBetweenChunks ==
    /\ \A n \in 1..Len(chunk_sleeps) : chunk_sleeps[n] = chunk_delay
    /\ pc \in {"create_task", "await_task", "upload_phase", "chunk_wait"}
          => /\ Len(chunk_sleeps) = chunk_index - 1
             /\ uploads_attempted
                    = 1..(IF pc = "chunk_wait" THEN chunk_index ELSE chunk_index - 1)
    /\ pc = "done" => Len(chunk_sleeps) = Len(brand_chunks) - 1
    /\ \A b \in Created : Len(chunk_sleeps) >= ChunkOf(b) - 1

\* C30 witness: the first task of the second chunk is being created after
\* one delay, the first chunk having produced no artifact
C30_Witness ==
    /\ pc = "create_task"
    /\ chunk_index = 2
    /\ chunk_sleeps = <<chunk_delay>>
    /\ artifacts = {}
    /\ \A b \in BrandsOf(2) : job[b].pc = "none"

(***************************************************************************)
(* More claims about scrape_page, checked under SpecBrand.                 *)
(***************************************************************************)
\* C16: a record whose publication time is unparseable or missing is only
\* left out by the filter of scrape_page: an attempt in which
\* get_car_details returned its list does not fail (and so is not retried).
C16_BadDateOnlyExcluded ==
    sp.fetched => ~sp.failed

\* the keys a category may have: non-empty strings with a visible character
IsCategory(key) == key \notin {None, "", " "}

\* C19: the category of a retained record is never empty: every key of the
\* dict returned by scrape_page, and of the dict scrape_brand builds, is a
\* non-empty, non-blank string (an absent tag being filed under "unknown").
C19_CategoryNeverEmpty ==
    /\ \A key \in DOMAIN car_data : IsCategory(key)
    /\ \A n \in 1..Len(page_log) :
         \A key \in DOMAIN page_log[n].result : IsCategory(key)

\* C23 (as claimed): when the last get_car_details call of a scrape_page call
\* returned a list, every record of the list whose publication date is the
\* target date is in the dataset of the job, under its car type, whatever the
\* other records of the list hold.
C23_OnlyFilterDrops ==
    (sp.status = "returned" /\ sp.fetched)
        => \A n \in 1..Len(sp.car_details) :
              LET detail == sp.car_details[n]
              IN (detail.date_published.py = "str"
                    /\ detail.date_published.tokens[1] = sp.yesterday)
                 => Holds(car_data, detail.type, detail)

\* the pages of the (url_template, page_count) list `us` from template k on,
\* in the order of the specs and, within one, of the page numbers
RECURSIVE PagesFrom(_, _)
PagesFrom(us, k) ==
    IF k > Len(us) THEN <<>>
    ELSE [p \in 1..us[k] |-> <<k, p>>] \o PagesFrom(us, k + 1)

\* the pages whose scrape_page call has returned are the first pages of the
\* job, in order; a call that has not returned is for the page after them;
\* no call is running during the page delay
C24_InOrder ==
    /\ Len(page_log) <= Len(PagesFrom(urls, 1))
    /\ \A n \in 1..Len(page_log) : page_log[n].url = PagesFrom(urls, 1)[n]
    /\ sp.status = "running"
          => /\ Len(page_log) < Len(PagesFrom(urls, 1))
             /\ sp.url = PagesFrom(urls, 1)[Len(page_log) + 1]
    /\ brand_pc = "page_delay"
          => sp.status = "returned" /\ sp.url = page_log[Len(page_log)].url

\* a scrape_page call begins only at the launch or when the page delay of
\* the call before it is over
C24_CallBegins ==
    (sp'.status = "running" /\ sp'.url # sp.url)
        => /\ sp.status # "running"
           /\ brand_pc = IF page_log = <<>> THEN "launch" ELSE "page_delay"

\* C24: the pages of a job are fetched one after another in the order
\* expanded from its (url_template, page_count) list: the call for a page,
\* with its retries, begins only when the call for the page before it has
\* returned and the page delay after it is over.
C24_PagesInSequence == []C24_InOrder /\ [][C24_CallBegins]_vars

\* C24 witness: the second page of the second template is being retried,
\* the pages before it having returned
C24_Witness ==
    /\ urls = <<1, MaxPages - 1>>
    /\ sp.status = "running"
    /\ sp.url = <<2, 2>>
    /\ sp.attempts = 2
    /\ Len(page_log) = 2

\* C25: every scrape_page call of a job, on every page and every attempt,
\* is made with the target date the job computed when it began: the day
\* before the day it began, wherever the clock stands at the call.
C25_TargetDateFixedPerJob ==
    /\ sp.status # "idle"
          => sp.yesterday = DateToken((started_at \div SecondsPerDay) - 1)
    /\ \A n \in 1..Len(page_log) :
          page_log[n].yesterday = DateToken((started_at \div SecondsPerDay) - 1)

\* C25 witness: the job began before midnight; its first page returned
\* before midnight, and a later page is on a retry after midnight
C25_Witness ==
    /\ started_at = FirstInstant
    /\ now = FirstInstant + TickSeconds
    /\ Len(page_log) >= 1
    /\ sp.status = "running"
    /\ sp.attempts >= 1
    /\ sp.url # page_log[1].url

(***************************************************************************)
(* Claims about the two retry layers of a page, checked under SpecExtract. *)
(***************************************************************************)
\* the links of a list of details
Links(details) == [k \in 1..Len(details) |-> details[k].link]

\* no element of the sequence s occurs twice
NoRepeat(s) == \A a \in 1..Len(s) : \A b \in 1..Len(s) : s[a] = s[b] => a = b

\* C33 (as claimed): retries never duplicate data: a listing of the page is
\* at most once in the list get_car_details returns and at most once in the
\* result of scrape_page, however many passes of the inner or of the outer
\* retry loop failed part-way through the page.
C33_NoDuplicates ==
    /\ gcd_pc = "close" => NoRepeat(Links(cars))
    /\ sp.status = "returned" =>
          \A type \in DOMAIN result : NoRepeat(Links(result[type]))

RECURSIVE SumOf(_)
SumOf(s) == IF s = <<>> THEN 0 ELSE Head(s) + SumOf(Tail(s))

\* the counts of one scrape_page call: get_car_details calls, page.goto
\* calls in each, and page.goto calls altogether
C38_Bounded ==
    /\ Len(navigations) <= 3
    /\ Len(navigations) = sp.attempts + (IF gcd_pc = "idle" THEN 0 ELSE 1)
    /\ \A k \in 1..Len(navigations) : navigations[k] <= 3
    /\ SumOf(navigations) <= 9
    /\ gcd_pc = "attempt" => navigations[Len(navigations)] = gcd_attempt

\* a pass of get_car_details that read every card of the page is the last
\* of its call
C38_StopsAfterSuccess ==
    (/\ gcd_pc = "attempt"
     /\ \E t \in ClockValues :
          cars' = cars \o CardsAppended(CurrentUrl, car_cards, Len(car_cards), t))
        => gcd_pc' # "attempt"

\* C38: the two retry layers are jointly bounded: in one scrape_page call
\* the page is navigated to at most 3 x 3 = 9 times, at most 3 times in each
\* of at most 3 get_car_details calls, and get_car_details does not navigate
\* again after a pass that read all the cards without error.
C38_RetryLayersBounded == []C38_Bounded /\ [][C38_StopsAfterSuccess]_vars

\* C38 happens: scrape_page has returned after nine navigations, the last of
\* which read the whole page
C38_Witness ==
    /\ sp.status = "returned"
    /\ ~sp.failed
    /\ navigations = <<3, 3, 3>>
    /\ cars # <<>>

(***************************************************************************)
(* SpecDate: one call of scrape_more_details, from the relative-time text  *)
(* to the date_published that get_car_details stores                       *)
(***************************************************************************)
InitDate ==
    /\ details_pc = "relative_date"
    /\ relative_date = RelNone
    /\ date_published = PyNone
    /\ details_raised = FALSE
    /\ IdleExtract
    /\ now \in ClockValues
    /\ urls = <<1>>
    /\ brand_pc = "idle"
    /\ started_at = 0
    /\ yesterday = DateToken(0)
    /\ car_data = EmptyDict
    /\ url_idx = 1
    /\ page = 1
    /\ result = EmptyDict
    /\ page_attempt = 0
    /\ sp = [NewPageCall(<<0, 0>>, DateToken(0)) EXCEPT !.status = "idle"]
    /\ page_log = <<>>
    /\ pc = "idle"
    /\ pending_uploads = <<>>
    /\ uploaded_files = <<>>
    /\ disk = {}
    /\ artifacts = {}
    /\ fileIdx = 1
    /\ attempt = 0
    /\ parentIdx = 1
    /\ folder_id = NoId
    /\ folder_name = DateToken(0)
    /\ i = 0
    /\ uf = [NewUploadCall(ExcelFile(0, 0), 0) EXCEPT !.status = "idle"]
    /\ drive_folders = [p \in ParentIds |-> 0]
    /\ drive_files = [fp \in {ExcelFile(k, 0) : k \in 1..MaxFiles} \X ParentIds |-> 0]
    /\ upload_sleeps = <<>>
    /\ uploads_attempted = {}
    /\ IdleOrchestrator

NextDate ==
    \/ scrape_relative_date
    \/ scrape_more_details

SpecDate == InitDate /\ [][NextDate]_vars

\* what the words of a well-formed phrase mean, in seconds
SecondsOf(word) ==
    CASE word \in {W_Second, W_seconds, W_SECONDS} -> 1
      [] word \in {W_Minute, W_minutes, W_MINUTE} -> 60
      [] word \in {W_Hour, W_hours, W_HOURS} -> 3600
      [] word \in {W_Day, W_days, W_DAYS} -> 24 * 3600

\* the phrases "<n> <unit> ago" with unit second, minute, hour or day in any
\* letter case, singular or plural
WellFormed(text) ==
    /\ text.py = "str"
    /\ text.digits
    /\ text.unit \in UnitWords

C15_UnparseableNeverRaises ==
    (details_pc = "done" /\ ~WellFormed(relative_date)) =>
        /\ ~details_raised
        /\ date_published = Str(<<Word("Invalid"), Word("Relative"), Word("Time")>>)

====
